---------------------------- MODULE Spec2Model ----------------------------
(***************************************************************************)
(* Dynatrace Metrics V2 API simulator (simulator_metric_dynatrace).        *)
(*                                                                         *)
(* app.py serves three token-protected operations over a static metric     *)
(* catalogue (mock_data.METRICS): list_metrics, query_metrics and          *)
(* get_metric_data_points; mock_data.py synthesises the time series.       *)
(*                                                                         *)
(* Conventions of this development.                                        *)
(*   - A Python str that the code searches, splits, lower-cases or parses  *)
(*     is a sequence of one-character strings, so `in`, str.split, int()   *)
(*     and str() are computed and not assumed.  A str that is only used    *)
(*     as a dictionary key or echoed (the resolution, fixture texts) is a  *)
(*     TLA+ string.                                                        *)
(*   - None is <<>> and a present value v is <<v>> wherever a value may be  *)
(*     absent (request parameters, the result of next(..., None)).         *)
(*   - TLC integers are 32 bit.  Clock readings are therefore small        *)
(*     (milliseconds since a recent epoch), and the 'disk' value range     *)
(*     10^9 .. 10^10 is carried in thousands.  Python's floats            *)
(*     drawn by random.uniform are sampled at integer points.              *)
(*   - The random module is an input: a request draws its values from one  *)
(*     of the streams of RandomStreams.                                    *)
(*   - frame holds the locals of a generator call that runs statement by   *)
(*     statement (SpecLoop); it is None wherever a call is one step.       *)
(*   - threads and random_state are the worker threads of the server and   *)
(*     the position of the random module's one generator, which the         *)
(*     threads share (SpecThreads); the other specifications leave them at  *)
(*     their initial values.                                               *)
(***************************************************************************)
EXTENDS Integers, Sequences, FiniteSets, TLC

VARIABLES METRICS, VALID_API_TOKENS, request, response, handler, stdout, env, frame,
          threads, random_state

vars == <<METRICS, VALID_API_TOKENS, request, response, handler, stdout, env, frame,
          threads, random_state>>

----------------------------------------------------------------------------
(* Bounds of the model. *)

\* a selector is a base text followed by at most MaxSegs transformation markers
MaxSegs == 2
\* a generated range spans at most MaxSteps whole intervals
MaxSteps == 2
\* the generator calls of SpecCore are limited to ranges of at most MaxPoints points
MaxPoints == 4
\* the server serves at most MaxThreads requests at a time
MaxThreads == 2
\* a unit draw of the random source is one of 0 .. RandScale, read as u / RandScale
RandScale == 2

----------------------------------------------------------------------------
(* String literals of the program. *)

\* mock_data.py: the catalogue's metric identifiers
id_cpu_usage ==
    <<"b","u","i","l","t","i","n",":","h","o","s","t",".","c","p","u",".","u","s","a","g","e">>
id_mem_usage ==
    <<"b","u","i","l","t","i","n",":","h","o","s","t",".","m","e","m",".","u","s","a","g","e">>
id_response_time ==
    <<"b","u","i","l","t","i","n",":","s","e","r","v","i","c","e",".","r","e","s","p","o","n","s","e",".","t","i","m","e">>
id_request_count ==
    <<"b","u","i","l","t","i","n",":","s","e","r","v","i","c","e",".","r","e","q","u","e","s","t",".","c","o","u","n","t">>
id_disk_avail ==
    <<"b","u","i","l","t","i","n",":","h","o","s","t",".","d","i","s","k",".","a","v","a","i","l">>
id_crashCount ==
    <<"b","u","i","l","t","i","n",":","a","p","p","s",".","o","t","h","e","r",".","c","r","a","s","h","C","o","u","n","t",".","o","s","A","n","d","V","e","r","s","i","o","n">>
id_keyRequest_count ==
    <<"b","u","i","l","t","i","n",":","s","e","r","v","i","c","e",".","k","e","y","R","e","q","u","e","s","t",".","c","o","u","n","t",".","t","o","t","a","l">>

\* mock_data.py: the catalogue entries, in catalogue order
metric_cpu_usage ==
    [ metricId |-> id_cpu_usage,
      displayName |->
          <<"C","P","U"," ","u","s","a","g","e"," ","%">>,
      description |-> "Percentage of CPU used",
      unit |-> "Percent",
      aggregationTypes |-> <<"avg", "min", "max">>,
      transformations |-> <<>>,
      defaultAggregation |-> [type |-> "avg"],
      dimensionDefinitions |-> <<[key |-> "dt.entity.host", name |-> "Host", index |-> 0, type |-> "ENTITY"]>>,
      entityType |-> <<"HOST">> ]
metric_mem_usage ==
    [ metricId |-> id_mem_usage,
      displayName |->
          <<"M","e","m","o","r","y"," ","u","s","a","g","e"," ","%">>,
      description |-> "Percentage of memory used",
      unit |-> "Percent",
      aggregationTypes |-> <<"avg", "min", "max">>,
      transformations |-> <<>>,
      defaultAggregation |-> [type |-> "avg"],
      dimensionDefinitions |-> <<[key |-> "dt.entity.host", name |-> "Host", index |-> 0, type |-> "ENTITY"]>>,
      entityType |-> <<"HOST">> ]
metric_response_time ==
    [ metricId |-> id_response_time,
      displayName |->
          <<"R","e","s","p","o","n","s","e"," ","t","i","m","e">>,
      description |-> "Average response time of service",
      unit |-> "MicroSecond",
      aggregationTypes |-> <<"avg", "min", "max", "percentile">>,
      transformations |-> <<>>,
      defaultAggregation |-> [type |-> "avg"],
      dimensionDefinitions |-> <<[key |-> "dt.entity.service", name |-> "Service", index |-> 0, type |-> "ENTITY"]>>,
      entityType |-> <<"SERVICE">> ]
metric_request_count ==
    [ metricId |-> id_request_count,
      displayName |->
          <<"R","e","q","u","e","s","t"," ","c","o","u","n","t">>,
      description |-> "Number of requests to service",
      unit |-> "Count",
      aggregationTypes |-> <<"count", "sum", "avg">>,
      transformations |-> <<>>,
      defaultAggregation |-> [type |-> "count"],
      dimensionDefinitions |-> <<[key |-> "dt.entity.service", name |-> "Service", index |-> 0, type |-> "ENTITY"]>>,
      entityType |-> <<"SERVICE">> ]
metric_disk_avail ==
    [ metricId |-> id_disk_avail,
      displayName |->
          <<"A","v","a","i","l","a","b","l","e"," ","d","i","s","k"," ","s","p","a","c","e">>,
      description |-> "Available disk space in bytes",
      unit |-> "Byte",
      aggregationTypes |-> <<"avg", "min", "max">>,
      transformations |-> <<>>,
      defaultAggregation |-> [type |-> "avg"],
      dimensionDefinitions |-> <<[key |-> "dt.entity.host", name |-> "Host", index |-> 0, type |-> "ENTITY"], [key |-> "dt.entity.disk", name |-> "Disk", index |-> 1, type |-> "ENTITY"]>>,
      entityType |-> <<"HOST">> ]
metric_crashCount ==
    [ metricId |-> id_crashCount,
      displayName |->
          <<"C","r","a","s","h"," ","c","o","u","n","t"," ","b","y"," ","O","S"," ","a","n","d"," ","v","e","r","s","i","o","n">>,
      description |-> "Number of application crashes grouped by OS and version",
      unit |-> "Count",
      aggregationTypes |-> <<"count", "sum">>,
      transformations |-> <<"filter", "splitBy", "sort">>,
      defaultAggregation |-> [type |-> "count"],
      dimensionDefinitions |-> <<[key |-> "dt.entity.device_application", name |-> "Mobile Application", index |-> 0, type |-> "ENTITY"], [key |-> "dt.entity.os", name |-> "Operating System", index |-> 1, type |-> "ENTITY"], [key |-> "osVersion", name |-> "OS Version", index |-> 2, type |-> "STRING"]>>,
      entityType |-> <<"MOBILE_APPLICATION">> ]
metric_keyRequest_count ==
    [ metricId |-> id_keyRequest_count,
      displayName |->
          <<"K","e","y"," ","r","e","q","u","e","s","t"," ","c","o","u","n","t">>,
      description |-> "Total count of key service method requests",
      unit |-> "Count",
      aggregationTypes |-> <<"count", "sum">>,
      transformations |-> <<"filter", "splitBy", "sort", "limit">>,
      defaultAggregation |-> [type |-> "count"],
      dimensionDefinitions |-> <<[key |-> "dt.entity.service", name |-> "Service", index |-> 0, type |-> "ENTITY"], [key |-> "dt.entity.service_method", name |-> "Service Method", index |-> 1, type |-> "ENTITY"], [key |-> "dt.entity.service_method.name", name |-> "Service Method Name", index |-> 2, type |-> "STRING"]>>,
      entityType |-> <<"SERVICE", "SERVICE_METHOD">> ]

BUILTIN_METRICS ==
    << metric_cpu_usage, metric_mem_usage, metric_response_time, metric_request_count,
       metric_disk_avail, metric_crashCount, metric_keyRequest_count >>

\* app.py: the transformation markers of a metric selector
MARK_FILTER ==
    <<":","f","i","l","t","e","r","(">>
MARK_SPLITBY ==
    <<":","s","p","l","i","t","B","y","(">>
MARK_SORT ==
    <<":","s","o","r","t","(">>

\* mock_data.py: the substrings that select a value range or the three-series fixture
kw_cpu ==
    <<"c","p","u">>
kw_mem ==
    <<"m","e","m">>
kw_response_time ==
    <<"r","e","s","p","o","n","s","e",".","t","i","m","e">>
kw_request_count ==
    <<"r","e","q","u","e","s","t",".","c","o","u","n","t">>
kw_keyRequest_count ==
    <<"k","e","y","R","e","q","u","e","s","t",".","c","o","u","n","t">>
kw_crashCount ==
    <<"c","r","a","s","h","C","o","u","n","t">>
kw_disk ==
    <<"d","i","s","k">>
kw_service ==
    <<"s","e","r","v","i","c","e">>

\* app.py: the default of DT_API_TOKENS, split at ','
token_sample1 ==
    <<"d","t","0","c","0","1",".","s","a","m","p","l","e",".","t","o","k","e","n","1">>
token_sample2 ==
    <<"d","t","0","c","0","1",".","s","a","m","p","l","e",".","t","o","k","e","n","2">>
token_test ==
    <<"t","e","s","t","-","t","o","k","e","n">>

DEFAULT_API_TOKENS == <<token_sample1, token_sample2, token_test>>

\* app.py: the scheme of the Authorization header
scheme_ApiToken ==
    <<"A","p","i","-","T","o","k","e","n">>

----------------------------------------------------------------------------
(* Python's str operations, on sequences of characters. *)

\* None, and a present value
None == <<>>
Some(v) == <<v>>

\* whether sub occurs in s at the 1-based index i
MatchAt(s, sub, i) == \A k \in 1..Len(sub) : s[i + k - 1] = sub[k]

\* str.find(sub) + 1: the least index at which sub occurs in s, 0 when it does not
Find(s, sub) ==
    LET hits == {i \in 1..(Len(s) - Len(sub) + 1) : MatchAt(s, sub, i)}
    IN  IF hits = {} THEN 0 ELSE CHOOSE i \in hits : \A j \in hits : i <= j

\* sub in s
Contains(s, sub) == Find(s, sub) # 0

\* s.split(sep, maxsplit) for a non-empty sep; maxsplit = -1 splits at every occurrence
RECURSIVE Split(_, _, _)
Split(s, sep, maxsplit) ==
    LET i == Find(s, sep)
    IN  IF i = 0 \/ maxsplit = 0
        THEN <<s>>
        ELSE <<SubSeq(s, 1, i - 1)>>
                 \o Split(SubSeq(s, i + Len(sep), Len(s)), sep, maxsplit - 1)

\* the least index of a sequence that satisfies a test, given the set of indices that do
FirstOf(hits) == CHOOSE i \in hits : \A j \in hits : i <= j

----------------------------------------------------------------------------
(* app.py query_metrics: the selector parse (lines 157-181). *)

\* variant: the text before the marker that comes first in the selector
base_metric_id_leftmost(metric_selector) ==
    LET starts == {Find(metric_selector, m) : m \in {MARK_FILTER, MARK_SPLITBY, MARK_SORT}}
                      \ {0}
    IN  IF starts = {} THEN metric_selector
        ELSE SubSeq(metric_selector, 1, FirstOf(starts) - 1)

\* the base metric id: the text before the first ':filter(', else before the first
\* ':splitBy(', else before the first ':sort(', else the whole selector
base_metric_id_of(metric_selector) ==
    IF metric_selector = <<>>
    THEN <<>>
    ELSE LET byFilter  == Split(metric_selector, MARK_FILTER, -1)
             bySplitBy == Split(metric_selector, MARK_SPLITBY, -1)
             bySort    == Split(metric_selector, MARK_SORT, -1)
         IN  IF Len(byFilter) > 1 THEN byFilter[1]
             ELSE IF Len(bySplitBy) > 1 THEN bySplitBy[1]
             ELSE IF Len(bySort) > 1 THEN bySort[1]
             ELSE metric_selector

has_filter_of(metric_selector) == Contains(metric_selector, MARK_FILTER)
\* variant: a ':filter(' in the selector hides its ':splitBy('
has_split_by_unless_filter(metric_selector) ==
    Contains(metric_selector, MARK_SPLITBY) /\ ~Contains(metric_selector, MARK_FILTER)

has_split_by_of(metric_selector) == Contains(metric_selector, MARK_SPLITBY)
has_sort_of(metric_selector) == Contains(metric_selector, MARK_SORT)

parse_selector(metric_selector) ==
    [ base_metric_id |-> base_metric_id_of(metric_selector),
      has_filter     |-> has_filter_of(metric_selector),
      has_split_by   |-> has_split_by_of(metric_selector),
      has_sort       |-> has_sort_of(metric_selector) ]

----------------------------------------------------------------------------
(* app.py: metric lookup. *)

\* next((m for m in catalogue if m['metricId'] == metric_id), None)
exact_match(catalogue, metric_id) ==
    LET hits == {i \in 1..Len(catalogue) : catalogue[i].metricId = metric_id}
    IN  IF hits = {} THEN None ELSE Some(catalogue[FirstOf(hits)])

\* next((m for m in catalogue if base_metric_id in m['metricId']), None)
partial_match(catalogue, base_metric_id) ==
    LET hits == {i \in 1..Len(catalogue) : Contains(catalogue[i].metricId, base_metric_id)}
    IN  IF hits = {} THEN None ELSE Some(catalogue[FirstOf(hits)])

\* variant: no fallback to the first entry
first_metric_missing(catalogue) == None

\* METRICS[0] if METRICS else None
first_metric(catalogue) ==
    IF Len(catalogue) > 0 THEN Some(catalogue[1]) ELSE None

\* variant: the substring step is skipped
matching_metric_no_partial(catalogue, base_metric_id) ==
    LET exact == IF base_metric_id # <<>> THEN exact_match(catalogue, base_metric_id) ELSE None
    IN  IF exact = None THEN first_metric(catalogue) ELSE exact

\* query_metrics lines 188-199: exact match, then substring match, then the first entry
matching_metric_of(catalogue, base_metric_id) ==
    LET exact   == IF base_metric_id # <<>> THEN exact_match(catalogue, base_metric_id) ELSE None
        partial == IF exact = None /\ base_metric_id # <<>>
                   THEN partial_match(catalogue, base_metric_id)
                   ELSE exact
    IN  IF partial = None THEN first_metric(catalogue) ELSE partial

\* variant: the path lookup falls back like the query lookup
strict_metric_permissive(catalogue, metric_id) == matching_metric_of(catalogue, metric_id)

\* get_metric_data_points line 295: the id of the path must match exactly
strict_metric_of(catalogue, metric_id) == exact_match(catalogue, metric_id)

----------------------------------------------------------------------------
(* mock_data.py: the series generators. *)

\* interval_map.get(resolution, default)
interval_map_get(resolution, default) ==
    CASE resolution = "1m" -> 60000
      [] resolution = "5m" -> 300000
      [] resolution = "1h" -> 3600000
      [] resolution = "1d" -> 86400000
      [] OTHER -> default

\* get_mock_data_points line 204
flat_interval(resolution) == interval_map_get(resolution, 60000)

\* variant: the multi-series default is the flat one
multi_interval_minute(resolution) == interval_map_get(resolution, 60000)

\* get_mock_multi_series_data line 256
multi_interval(resolution) == interval_map_get(resolution, 300000)

\* variant: the walk stops before to_ts
RECURSIVE cursor_walk_exclusive(_, _, _)
cursor_walk_exclusive(current_ts, to_ts, interval) ==
    IF current_ts < to_ts
    THEN <<current_ts>> \o cursor_walk_exclusive(current_ts + interval, to_ts, interval)
    ELSE <<>>

\* the cursor walk: while current_ts <= to_ts: append current_ts; current_ts += interval
RECURSIVE cursor_walk(_, _, _)
cursor_walk(current_ts, to_ts, interval) ==
    IF current_ts <= to_ts
    THEN <<current_ts>> \o cursor_walk(current_ts + interval, to_ts, interval)
    ELSE <<>>

\* the k-th unit draw of a random stream (streams are periodic)
Draw(rnd, k) == rnd[((k - 1) % Len(rnd)) + 1]

\* random.uniform(a, b) = a + (b - a) * random(), at the drawn unit u / RandScale
random_uniform(a, b, u) == a + ((b - a) * u) \div RandScale

\* random.randint(a, b): an integer of a .. b, at the drawn unit u / RandScale
random_randint(a, b, u) == a + ((b - a) * u) \div RandScale

\* variant: the 'disk' rule is tested before the 'cpu'/'mem' rule
point_value_disk_first(metric_id, u) ==
    IF Contains(metric_id, kw_disk)
    THEN random_uniform(1000000, 10000000, u)
    ELSE IF Contains(metric_id, kw_cpu) \/ Contains(metric_id, kw_mem)
    THEN random_uniform(20, 90, u)
    ELSE IF Contains(metric_id, kw_response_time)
    THEN random_uniform(100, 5000, u)
    ELSE IF Contains(metric_id, kw_request_count) \/ Contains(metric_id, kw_keyRequest_count)
    THEN random_randint(1000, 2800, u)
    ELSE IF Contains(metric_id, kw_crashCount)
    THEN random_randint(0, 50, u)
    ELSE random_uniform(0, 100, u)

\* get_mock_data_points lines 212-223: the value of one point, from the unit draw u
point_value(metric_id, u) ==
    IF Contains(metric_id, kw_cpu) \/ Contains(metric_id, kw_mem)
    THEN random_uniform(20, 90, u)
    ELSE IF Contains(metric_id, kw_response_time)
    THEN random_uniform(100, 5000, u)
    ELSE IF Contains(metric_id, kw_request_count) \/ Contains(metric_id, kw_keyRequest_count)
    THEN random_randint(1000, 2800, u)
    ELSE IF Contains(metric_id, kw_crashCount)
    THEN random_randint(0, 50, u)
    ELSE IF Contains(metric_id, kw_disk)
    THEN random_uniform(1000000, 10000000, u)   \* 10^9 .. 10^10, in thousands
    ELSE random_uniform(0, 100, u)

\* get_mock_data_points: the list of [timestamp, value] pairs
get_mock_data_points(metric_id, from_ts, to_ts, resolution, rnd) ==
    LET timestamps == cursor_walk(from_ts, to_ts, flat_interval(resolution))
    IN  [i \in 1..Len(timestamps) |->
            <<timestamps[i], point_value(metric_id, Draw(rnd, i))>>]

\* variant: only 'keyRequest.count' selects the three series
is_service_metric_keyRequest_only(metric_id) == Contains(metric_id, kw_keyRequest_count)

\* whether get_mock_multi_series_data answers with the three service-method series
is_service_metric(metric_id) ==
    Contains(metric_id, kw_keyRequest_count) \/ Contains(metric_id, kw_service)

\* one of the three fixture series (lines 268-294); its values are the draws after `offset`
service_series(method, name, timestamps, lo, hi, rnd, offset) ==
    [ dimensions   |-> <<"dt.entity.service_method">>,
      dimensionMap |-> ( "dt.entity.service_method" :> method
                         @@ "dt.entity.service_method.name" :> name ),
      timestamps   |-> timestamps,
      values       |-> [i \in 1..Len(timestamps) |->
                           random_randint(lo, hi, Draw(rnd, offset + i))] ]

\* the default series (lines 298-305)
default_series(timestamps, rnd) ==
    [ dimensions   |-> <<>>,
      dimensionMap |-> <<>>,
      timestamps   |-> timestamps,
      values       |-> [i \in 1..Len(timestamps) |-> random_uniform(0, 100, Draw(rnd, i))] ]

\* get_mock_multi_series_data lines 265-307: the series over the walked timestamps
series_of(metric_id, timestamps, rnd) ==
    LET n == Len(timestamps)
    IN  IF is_service_metric(metric_id)
        THEN << service_series("SERVICE_METHOD-7B94CA28812AEDEB",
                               "criarCobrancaPut - bki.cielo.com.br",
                               timestamps, 2000, 2800, rnd, 0),
                service_series("SERVICE_METHOD-586B0DAF0DCA0215",
                               "criarCobrancaPutEmv - IFOOD COM AGENCIA DE RESTAURANTES ONLINE S A:14380200000121",
                               timestamps, 1000, 1400, rnd, n),
                service_series("SERVICE_METHOD-ABC123DEF456",
                               "processPayment - payment.service.com",
                               timestamps, 500, 1000, rnd, 2 * n) >>
        ELSE << default_series(timestamps, rnd) >>

\* get_mock_multi_series_data: the list of series
get_mock_multi_series_data(metric_id, from_ts, to_ts, resolution, rnd) ==
    series_of(metric_id, cursor_walk(from_ts, to_ts, multi_interval(resolution)), rnd)

\* variant: the loop body leaves the cursor where it is
cursor_advance_missing(current_ts, interval) == current_ts

\* current_ts += interval, the last statement of the loop body of both generators
cursor_advance(current_ts, interval) == current_ts + interval

----------------------------------------------------------------------------
(* Python's int(), str(), truth test and str.lower(). *)

Digits == <<"0", "1", "2", "3", "4", "5", "6", "7", "8", "9">>

IsDigit(c) == \E d \in 1..10 : Digits[d] = c

DigitVal(c) == (CHOOSE d \in 1..10 : Digits[d] = c) - 1

RECURSIVE digits_value(_)
digits_value(s) ==
    IF s = <<>> THEN 0
    ELSE digits_value(SubSeq(s, 1, Len(s) - 1)) * 10 + DigitVal(s[Len(s)])

\* the characters int() strips from both ends of a str: tab, line feed, vertical tab,
\* form feed, carriage return, space, next line (U+0085), no-break space (U+00A0)
int_whitespace == {"\t", "\n", "", "\f", "\r", " ", "", " "}

\* s without its leading and trailing int_whitespace
strip(s) ==
    LET kept == {i \in 1..Len(s) : s[i] \notin int_whitespace}
    IN  IF kept = {} THEN <<>>
        ELSE SubSeq(s, CHOOSE i \in kept : \A j \in kept : i <= j,
                       CHOOSE i \in kept : \A j \in kept : i >= j)

\* int(s) for a str s: surrounding whitespace is stripped; what remains is an optional
\* sign and decimal digits, with single underscores allowed between digits.  None
\* stands for ValueError.
int_of_str(s) ==
    LET text   == strip(s)
        signed == text # <<>> /\ text[1] \in {"+", "-"}
        body   == IF signed THEN Tail(text) ELSE text
        digit(c) == IsDigit(c)
        valid  == /\ body # <<>>
                  /\ \A i \in 1..Len(body) : IsDigit(body[i]) \/ body[i] = "_"
                  /\ IsDigit(body[1])
                  /\ IsDigit(body[Len(body)])
                  /\ \A i \in 1..(Len(body) - 1) : ~(body[i] = "_" /\ body[i + 1] = "_")
        value  == digits_value(SelectSeq(body, digit))
    IN  IF ~valid THEN None
        ELSE Some(IF text[1] = "-" THEN 0 - value ELSE value)

RECURSIVE str_of_nat(_)
str_of_nat(n) ==
    IF n < 10 THEN <<Digits[n + 1]>>
    ELSE str_of_nat(n \div 10) \o <<Digits[(n % 10) + 1]>>

\* str(n) for an int n
str_of_int(n) == IF n < 0 THEN <<"-">> \o str_of_nat(0 - n) ELSE str_of_nat(n)

\* A request value is a str (query string, JSON string) or an int (JSON number);
\* the field of the other type is unused.
StrVal(text) == [t |-> "str", s |-> text, n |-> 0]
IntVal(number) == [t |-> "int", s |-> <<>>, n |-> number]

\* `not x` for an optional request value: None, '' and 0 are false
is_falsy(x) ==
    IF x = None THEN TRUE
    ELSE IF x[1].t = "str" THEN x[1].s = <<>>
    ELSE x[1].n = 0

\* int(x) for a request value; None stands for ValueError
py_int(x) == IF x.t = "int" THEN Some(x.n) ELSE int_of_str(x.s)

\* the characters str.lower() changes, among those a string of this module can hold
\* (up to U+00FF), and what it changes them to
UpperCase == <<"A","B","C","D","E","F","G","H","I","J","K","L","M","N",
               "O","P","Q","R","S","T","U","V","W","X","Y","Z","À","Á",
               "Â","Ã","Ä","Å","Æ","Ç","È","É","Ê","Ë","Ì","Í","Î","Ï",
               "Ð","Ñ","Ò","Ó","Ô","Õ","Ö","Ø","Ù","Ú","Û","Ü","Ý","Þ">>
LowerCase == <<"a","b","c","d","e","f","g","h","i","j","k","l","m","n",
               "o","p","q","r","s","t","u","v","w","x","y","z","à","á",
               "â","ã","ä","å","æ","ç","è","é","ê","ë","ì","í","î","ï",
               "ð","ñ","ò","ó","ô","õ","ö","ø","ù","ú","û","ü","ý","þ">>

lower_char(c) ==
    IF \E k \in 1..Len(UpperCase) : UpperCase[k] = c
    THEN LowerCase[CHOOSE k \in 1..Len(UpperCase) : UpperCase[k] = c]
    ELSE c

\* s.lower()
lower(s) == [i \in 1..Len(s) |-> lower_char(s[i])]

\* lst[:n]
slice_to(lst, n) ==
    IF n >= 0
    THEN SubSeq(lst, 1, IF n < Len(lst) THEN n ELSE Len(lst))
    ELSE SubSeq(lst, 1, Len(lst) + n)

\* [m for m in lst if keep(m)], given the set of indices kept
RECURSIVE filter_indices(_, _, _)
filter_indices(lst, keep, i) ==
    IF i > Len(lst) THEN <<>>
    ELSE (IF i \in keep THEN <<lst[i]>> ELSE <<>>) \o filter_indices(lst, keep, i + 1)

\* d.get(key, default) for an optional entry
get_or(entry, default) == IF entry = None THEN default ELSE entry[1]

----------------------------------------------------------------------------
(* app.py: responses. *)

\* jsonify({"error": {"code": code, "message": message}}), code
error_response(code, message) ==
    [status |-> code, body |-> [error |-> [code |-> code, message |-> message]]]

\* an exception no handler catches: Flask answers 500
unhandled_exception(name) ==
    [status |-> 500, body |-> [exception |-> name]]

\* the data envelope of query_metrics and get_metric_data_points
data_response(total_count, resolution, metric_id, data) ==
    [ status |-> 200,
      body   |-> [ totalCount  |-> total_count,
                   nextPageKey |-> None,
                   resolution  |-> resolution,
                   result      |-> << [ metricId            |-> metric_id,
                                        dataPointCountRatio |-> 1,
                                        dimensionCountRatio |-> 1,
                                        data                |-> data ] >> ] ]

\* variant: the values start at the second point
flat_entry_misaligned(data_points) ==
    [ dimensions   |-> <<>>,
      dimensionMap |-> <<>>,
      timestamps   |-> [i \in 1..Len(data_points) |-> data_points[i][1]],
      values       |-> [i \in 1..(Len(data_points) - 1) |-> data_points[i + 1][2]] ]

\* the single entry of the flat form, from the list of [timestamp, value] pairs
flat_entry(data_points) ==
    [ dimensions   |-> <<>>,
      dimensionMap |-> <<>>,
      timestamps   |-> [i \in 1..Len(data_points) |-> data_points[i][1]],
      values       |-> [i \in 1..Len(data_points) |-> data_points[i][2]] ]

\* what serving a request leaves behind: the response, the view function that ran
\* ("" when none did), its debug output, the clock readings it took, in order, and the
\* random stream it used
Outcome(resp, ran, out, now, rnd) ==
    [response |-> resp, handler |-> ran, stdout |-> out, env |-> [now |-> now, rnd |-> rnd]]

\* the random stream, when a generator drew `draws` values from it
rnd_used(rnd, draws) == IF draws > 0 THEN Some(rnd) ELSE None

\* variant: the token is not looked up in the accepted set
require_api_token_any_token(headers, valid_api_tokens) ==
    LET auth_header == get_or(headers.Authorization, <<>>)
        parts       == Split(auth_header, <<" ">>, 1)
    IN  IF auth_header = <<>>
        THEN Some(error_response(401,
                 "Missing Authorization header. Expected format: 'Api-Token {token}'"))
        ELSE IF Len(parts) # 2 \/ parts[1] # scheme_ApiToken
        THEN Some(error_response(401,
                 "Invalid Authorization header format. Expected format: 'Api-Token {token}'"))
        ELSE None

----------------------------------------------------------------------------
(* app.py require_api_token (lines 22-63): None when the view function may run,
   else the 401 response. *)

require_api_token(headers, valid_api_tokens) ==
    LET auth_header == get_or(headers.Authorization, <<>>)
        parts       == Split(auth_header, <<" ">>, 1)
    IN  IF auth_header = <<>>
        THEN Some(error_response(401,
                 "Missing Authorization header. Expected format: 'Api-Token {token}'"))
        ELSE IF Len(parts) # 2 \/ parts[1] # scheme_ApiToken
        THEN Some(error_response(401,
                 "Invalid Authorization header format. Expected format: 'Api-Token {token}'"))
        ELSE IF ~(\E i \in 1..Len(valid_api_tokens) : valid_api_tokens[i] = parts[2])
        THEN Some(error_response(401, "Invalid API token"))
        ELSE None

----------------------------------------------------------------------------
(* app.py list_metrics (lines 68-112). *)

list_metrics(req, catalogue) ==
    LET metric_selector == get_or(req.args.metricSelector, <<>>)
        text_filter     == get_or(req.args.text, <<>>)
        page_size       == IF req.args.pageSize = None
                           THEN Some(500)
                           ELSE int_of_str(req.args.pageSize[1])
        by_text  == IF text_filter # <<>>
                    THEN filter_indices(catalogue,
                             {i \in 1..Len(catalogue) :
                                 \/ Contains(lower(catalogue[i].metricId), lower(text_filter))
                                 \/ Contains(lower(catalogue[i].displayName), lower(text_filter))},
                             1)
                    ELSE catalogue
        filtered == IF metric_selector # <<>>
                    THEN filter_indices(by_text,
                             {i \in 1..Len(by_text) :
                                 Contains(by_text[i].metricId, metric_selector)},
                             1)
                    ELSE by_text
    IN  IF page_size = None
        THEN Outcome(unhandled_exception("ValueError"), "list_metrics", <<>>, None, None)
        ELSE Outcome([ status |-> 200,
                       body   |-> [ totalCount  |-> Len(filtered),
                                    nextPageKey |-> None,
                                    metrics     |-> slice_to(filtered, page_size[1]) ] ],
                     "list_metrics", <<>>, None, None)

----------------------------------------------------------------------------
\* variant: the result always names the matched entry
echoed_metric_id_matched(base_metric_id, matched_id) == matched_id

\* app.py lines 227 and 249: base_metric_id or matching_metric['metricId']
echoed_metric_id(base_metric_id, matched_id) ==
    IF base_metric_id # <<>> THEN base_metric_id ELSE matched_id

----------------------------------------------------------------------------
(* app.py query_metrics (lines 117-264).  GET reads request.args, POST the JSON body;
   both are req.params here.  `readings` are the successive values of
   int(time.time() * 1000): line 152 takes one for a missing 'to', then line 155 takes
   the next one for a missing 'from'. *)

query_metrics(req, catalogue, readings, rnd) ==
    LET metric_selector == get_or(req.params.metricSelector, <<>>)
        resolution      == get_or(req.params.resolution, "1m")
        to_reads        == IF is_falsy(req.params.to) THEN 1 ELSE 0
        from_reads      == IF is_falsy(req.params.from) THEN 1 ELSE 0
        to_param        == IF is_falsy(req.params.to)
                           THEN StrVal(str_of_int(readings[1]))
                           ELSE req.params.to[1]
        from_param      == IF is_falsy(req.params.from)
                           THEN StrVal(str_of_int(readings[to_reads + 1] - 3600000))
                           ELSE req.params.from[1]
        clock           == SubSeq(readings, 1, to_reads + from_reads)
        base_metric_id  == base_metric_id_of(metric_selector)
        has_split_by    == has_split_by_of(metric_selector)
        matching_metric == matching_metric_of(catalogue, base_metric_id)
        debug == << [label |-> "[DEBUG] Metric selector: ", value |-> metric_selector],
                    [label |-> "[DEBUG] Base metric ID: ", value |-> base_metric_id],
                    [label |-> "[DEBUG] Has splitBy: ", value |-> has_split_by],
                    [label |-> "[DEBUG] Matching metric: ",
                     value |-> IF matching_metric = None THEN None
                               ELSE Some(matching_metric[1].metricId)] >>
        from_ts == py_int(from_param)
        to_ts   == py_int(to_param)
        echoed  == echoed_metric_id(base_metric_id, matching_metric[1].metricId)
    IN  IF matching_metric = None
        THEN Outcome(error_response(404,
                        [fmt |-> "No metrics found matching selector '{}'",
                         arg |-> metric_selector]),
                     "query_metrics", debug, clock, None)
        ELSE IF from_ts = None \/ to_ts = None
        THEN Outcome(unhandled_exception("ValueError"), "query_metrics", debug, clock, None)
        ELSE IF has_split_by
        THEN LET series_data == get_mock_multi_series_data(matching_metric[1].metricId,
                                    from_ts[1], to_ts[1], resolution, rnd)
             IN  Outcome(data_response(Len(series_data), resolution, echoed, series_data),
                         "query_metrics", debug, clock,
                         rnd_used(rnd, Len(series_data[1].timestamps)))
        ELSE LET data_points == get_mock_data_points(matching_metric[1].metricId,
                                    from_ts[1], to_ts[1], resolution, rnd)
             IN  Outcome(data_response(1, resolution, echoed, <<flat_entry(data_points)>>),
                         "query_metrics", debug, clock,
                         rnd_used(rnd, Len(data_points)))

----------------------------------------------------------------------------
\* variant: the metric is looked up before 'from' is tested
get_metric_data_points_lookup_first(req, catalogue, now, rnd) ==
    LET metric_id  == req.metric_id
        from_param == req.args.from
        to_param   == get_or(req.args.to, StrVal(str_of_int(now)))
        resolution == get_or(req.args.resolution, "1m")
        metric     == strict_metric_of(catalogue, metric_id)
        from_ts    == py_int(from_param[1])
        to_ts      == py_int(to_param)
    IN  IF metric = None
        THEN Outcome(error_response(404,
                        [fmt |-> "Metric '{}' not found", arg |-> metric_id]),
                     "get_metric_data_points", <<>>, Some(now), None)
        ELSE IF is_falsy(from_param)
        THEN Outcome(error_response(400, "Missing required parameter 'from'"),
                     "get_metric_data_points", <<>>, Some(now), None)
        ELSE IF from_ts = None \/ to_ts = None
        THEN Outcome(unhandled_exception("ValueError"),
                     "get_metric_data_points", <<>>, Some(now), None)
        ELSE LET data_points == get_mock_data_points(metric_id, from_ts[1], to_ts[1],
                                    resolution, rnd)
             IN  Outcome(data_response(1, resolution, metric_id, <<flat_entry(data_points)>>),
                         "get_metric_data_points", <<>>, Some(now),
                         rnd_used(rnd, Len(data_points)))

----------------------------------------------------------------------------
(* app.py get_metric_data_points (lines 269-335). *)

get_metric_data_points(req, catalogue, now, rnd) ==
    LET metric_id  == req.metric_id
        from_param == req.args.from
        to_param   == get_or(req.args.to, StrVal(str_of_int(now)))
        resolution == get_or(req.args.resolution, "1m")
        metric     == strict_metric_of(catalogue, metric_id)
        from_ts    == py_int(from_param[1])
        to_ts      == py_int(to_param)
    IN  IF is_falsy(from_param)
        THEN Outcome(error_response(400, "Missing required parameter 'from'"),
                     "get_metric_data_points", <<>>, Some(now), None)
        ELSE IF metric = None
        THEN Outcome(error_response(404,
                        [fmt |-> "Metric '{}' not found", arg |-> metric_id]),
                     "get_metric_data_points", <<>>, Some(now), None)
        ELSE IF from_ts = None \/ to_ts = None
        THEN Outcome(unhandled_exception("ValueError"),
                     "get_metric_data_points", <<>>, Some(now), None)
        ELSE LET data_points == get_mock_data_points(metric_id, from_ts[1], to_ts[1],
                                    resolution, rnd)
             IN  Outcome(data_response(1, resolution, metric_id, <<flat_entry(data_points)>>),
                         "get_metric_data_points", <<>>, Some(now),
                         rnd_used(rnd, Len(data_points)))

----------------------------------------------------------------------------
(* app.py health_check and root (lines 338-362): no token is required. *)

health_check ==
    Outcome([status |-> 200,
             body   |-> [status |-> "ok", message |-> "Dynatrace API Simulator is running"]],
            "health_check", <<>>, None, None)

root ==
    Outcome([status |-> 200,
             body   |->
                 [ name      |-> "Dynatrace Metrics V2 API Simulator",
                   version   |-> "1.0.0",
                   endpoints |->
                       [ list_metrics    |-> "GET /api/v2/metrics",
                         get_metric_data |-> "GET /api/v2/metrics/{metricId}",
                         query_metrics   |-> "GET|POST /api/v2/metrics/query",
                         health          |-> "GET /health" ],
                   examples  |->
                       [ simple_query     |-> "/api/v2/metrics/query?metricSelector=builtin:host.cpu.usage",
                         service_requests |-> "/api/v2/metrics/query?metricSelector=builtin:service.keyRequest.count.total:filter(and(or(in(\"dt.entity.service_method\",entitySelector(\"type(service_method)\"))))):splitBy(\"dt.entity.service_method\"):sort(value(auto,descending)):limit(20)&resolution=5m",
                         filtered_query   |-> "/api/v2/metrics/query?metricSelector=builtin:apps.other.crashCount.osAndVersion:filter(and(or(in(\"dt.entity.os\",entitySelector(\"type(os)\")))))&from=1699500000000&to=1699503600000",
                         complex_query    |-> "/api/v2/metrics/query?metricSelector=builtin:apps.other.crashCount.osAndVersion:filter(...):splitBy():sort(value(auto,descending))" ] ] ],
            "root", <<>>, None, None)

----------------------------------------------------------------------------
(* The inputs of the model. *)

\* numerals and other texts that requests carry
txt_0       == <<"0">>
txt_1000    == <<"1","0","0","0">>
txt_300000  == <<"3","0","0","0","0","0">>
txt_1000000 == <<"1","0","0","0","0","0","0">>
txt_1003000 == <<"1","0","0","3","0","0","0">>
txt_abc     == <<"a","b","c">>
txt_x       == <<"x">>
txt_2       == <<"2">>
txt_minus1  == <<"-","1">>
txt_sp2     == <<" ","2">>
txt_sp0     == <<" ","0">>
txt_0sp     == <<"0"," ">>
txt_60_000  == <<"6","0","_","0","0","0">>
txt_60000   == <<"6","0","0","0","0">>
txt_CPU     == <<"C","P","U">>
txt_usage   == <<"u","s","a","g","e">>
txt_limit   == <<":","l","i","m","i","t","(","2","0",")">>
txt_mem_disk  == <<"m","e","m",".","d","i","s","k">>
txt_disk_cpu  == <<"d","i","s","k",".","c","p","u">>
txt_crash_req == <<"c","r","a","s","h","C","o","u","n","t",".","r","e","q","u","e","s","t",".","c","o","u","n","t">>
txt_rt_crash  == <<"r","e","s","p","o","n","s","e",".","t","i","m","e",".","c","r","a","s","h","C","o","u","n","t">>
txt_Disk      == <<"D","i","s","k">>
txt_builtin   == <<"b","u","i","l","t","i","n",":">>

\* readings of the clock, in milliseconds
Clock == {5000000, 5060000}

\* two successive readings of the clock within one request: the same millisecond or a
\* later one, and an earlier one when the wall clock was set back in between
ClockReadings == {<<first, second>> : first \in Clock, second \in Clock}

\* the random source: periodic streams of unit draws (all low, all high, mixed)
RandomStreams == { <<0>>, <<RandScale>>, <<0, 1, RandScale>> }

\* the transformation segments a selector may carry after its base text
Segments == { MARK_FILTER \o <<"a", ")">>, MARK_SPLITBY \o <<")">>, MARK_SORT }

\* the texts made of at most k segments
RECURSIVE Suffixes(_, _)
Suffixes(segments, k) ==
    IF k = 0 THEN {<<>>}
    ELSE Suffixes(segments, k - 1)
             \cup {s \o m : s \in Suffixes(segments, k - 1), m \in segments}

\* test_splitby.py line 4:
\* builtin:service.keyRequest.count.total:splitBy("dt.entity.service_method")
sel_keyRequest_splitBy ==
    id_keyRequest_count \o MARK_SPLITBY
        \o <<"\"","d","t",".","e","n","t","i","t","y",".","s","e","r","v","i","c","e","_","m","e","t","h","o","d","\"",")">>

\* the selectors sent to the query operation: an exact id, a partial id, no id, an unknown
\* id, each followed by transformation segments, and the selector of test_splitby.py
Selectors ==
    {b \o s : b \in {<<>>, id_keyRequest_count, kw_service, txt_x},
              s \in Suffixes(Segments, MaxSegs)}
        \cup {sel_keyRequest_splitBy}

\* Authorization headers a request may carry
hdr_valid_test ==
    <<"A","p","i","-","T","o","k","e","n"," ","t","e","s","t","-","t","o","k","e","n">>
hdr_bearer ==
    <<"B","e","a","r","e","r"," ","t","e","s","t","-","t","o","k","e","n">>
hdr_invalid_token ==
    <<"A","p","i","-","T","o","k","e","n"," ","i","n","v","a","l","i","d","-","t","o","k","e","n">>
hdr_scheme_only ==
    <<"A","p","i","-","T","o","k","e","n">>
hdr_two_spaces ==
    <<"A","p","i","-","T","o","k","e","n"," "," ","t","e","s","t","-","t","o","k","e","n">>

\* the Authorization header of a request: absent, empty, malformed, unknown token, valid
AuthHeaders ==
    { None, Some(<<>>), Some(hdr_bearer), Some(hdr_scheme_only), Some(hdr_two_spaces),
      Some(hdr_invalid_token), Some(hdr_valid_test) }

\* from/to of a GET query: query-string texts
GetTimes ==
    { <<None, None>>,
      <<Some(StrVal(txt_0)), Some(StrVal(txt_300000))>>,
      <<Some(StrVal(txt_1000000)), Some(StrVal(txt_1003000))>>,
      <<Some(StrVal(txt_300000)), Some(StrVal(txt_0))>>,
      <<Some(StrVal(txt_1000000)), None>>,
      <<None, Some(StrVal(txt_1000))>>,
      <<Some(StrVal(<<>>)), Some(StrVal(txt_300000))>>,
      <<Some(StrVal(txt_abc)), Some(StrVal(txt_300000))>>,
      <<Some(StrVal(txt_sp0)), Some(StrVal(txt_60_000))>> }

\* from/to of a POST query: JSON numbers or strings
PostTimes ==
    { <<None, None>>,
      <<Some(IntVal(0)), Some(IntVal(300000))>>,
      <<Some(IntVal(1000000)), Some(IntVal(1003000))>>,
      <<Some(IntVal(300000)), Some(IntVal(0))>>,
      <<Some(IntVal(1000000)), None>>,
      <<Some(StrVal(txt_0)), Some(IntVal(300000))>> }

QueryResolutions == { None, Some("5m"), Some("2m") }

QueryRequests ==
    { [ route   |-> "/api/v2/metrics/query",
        method  |-> m,
        headers |-> [Authorization |-> h],
        params  |-> [metricSelector |-> s, from |-> t[1], to |-> t[2], resolution |-> r] ] :
      m \in {"GET"}, h \in AuthHeaders, s \in {None} \cup {Some(x) : x \in Selectors},
      t \in GetTimes, r \in QueryResolutions }
    \cup
    { [ route   |-> "/api/v2/metrics/query",
        method  |-> m,
        headers |-> [Authorization |-> h],
        params  |-> [metricSelector |-> s, from |-> t[1], to |-> t[2], resolution |-> r] ] :
      m \in {"POST"}, h \in AuthHeaders, s \in {None} \cup {Some(x) : x \in Selectors},
      t \in PostTimes, r \in QueryResolutions }

DataPointRequests ==
    { [ route     |-> "/api/v2/metrics/<path:metric_id>",
        method    |-> "GET",
        headers   |-> [Authorization |-> h],
        metric_id |-> id,
        args      |-> [from |-> f, to |-> t, resolution |-> r] ] :
      h \in AuthHeaders,
      id \in {id_cpu_usage, id_keyRequest_count, id_disk_avail, kw_cpu, txt_builtin, txt_x},
      f \in {None, Some(StrVal(<<>>)), Some(StrVal(txt_0)), Some(StrVal(txt_1000000)),
             Some(StrVal(txt_abc)), Some(StrVal(txt_0sp))},
      t \in {None, Some(StrVal(txt_300000)), Some(StrVal(txt_1003000)), Some(StrVal(txt_0))},
      r \in QueryResolutions }

ListRequests ==
    { [ route   |-> "/api/v2/metrics",
        method  |-> "GET",
        headers |-> [Authorization |-> h],
        args    |-> [metricSelector |-> s, text |-> t, pageSize |-> p] ] :
      h \in AuthHeaders,
      s \in {None, Some(kw_cpu), Some(id_cpu_usage), Some(txt_x)},
      t \in {None, Some(txt_CPU), Some(txt_usage)},
      p \in {None, Some(txt_2), Some(txt_minus1), Some(txt_abc), Some(txt_sp2)} }

----------------------------------------------------------------------------
(* The server: one action per route.  A state holds the request being served and what
   serving it left behind; EndRequest is the end of the request/response cycle, after
   which nothing of the request remains. *)

NoEnv == [now |-> None, rnd |-> None]

\* the worker threads of the server (app.run: one thread per request being served)
Threads == 1..MaxThreads

\* the local variables of a view function and of the generator it calls
NoLocals ==
    [ base_metric_id  |-> <<>>,
      has_split_by    |-> FALSE,
      matching_metric |-> None,
      metric_id       |-> <<>>,
      echoed          |-> <<>>,
      resolution      |-> "",
      to_ts           |-> 0,
      interval        |-> 0,
      current_ts      |-> 0,
      list            |-> <<>>,
      draws           |-> <<>> ]

\* a thread that serves no request
IdleThread == [request |-> None, pc |-> "idle", locals |-> NoLocals, response |-> None]

Init ==
    /\ METRICS = BUILTIN_METRICS
    /\ VALID_API_TOKENS = DEFAULT_API_TOKENS
    /\ request = None
    /\ response = None
    /\ handler = ""
    /\ stdout = <<>>
    /\ env = NoEnv
    /\ frame = None
    /\ threads = [t \in Threads |-> IdleThread]
    /\ random_state = 0

\* a request is served: the handlers read METRICS and VALID_API_TOKENS and assign neither
\* (list_metrics filters METRICS.copy(), line 84)
Serve(req, out) ==
    /\ request' = Some(req)
    /\ response' = Some(out.response)
    /\ handler' = out.handler
    /\ stdout' = out.stdout
    /\ env' = out.env
    /\ UNCHANGED <<METRICS, VALID_API_TOKENS, frame, threads, random_state>>

\* decorated_function returning the 401 response without calling the view function
Rejected(resp) == Outcome(resp, "", <<>>, None, None)

ListMetrics ==
    /\ request = None
    /\ \E req \in ListRequests :
        LET denied == require_api_token(req.headers, VALID_API_TOKENS)
        IN  IF denied # None
            THEN Serve(req, Rejected(denied[1]))
            ELSE Serve(req, list_metrics(req, METRICS))

QueryMetrics ==
    /\ request = None
    /\ \E req \in QueryRequests :
        LET denied == require_api_token(req.headers, VALID_API_TOKENS)
        IN  IF denied # None
            THEN Serve(req, Rejected(denied[1]))
            ELSE \E readings \in ClockReadings, rnd \in RandomStreams :
                     Serve(req, query_metrics(req, METRICS, readings, rnd))

GetMetricDataPoints ==
    /\ request = None
    /\ \E req \in DataPointRequests :
        LET denied == require_api_token(req.headers, VALID_API_TOKENS)
        IN  IF denied # None
            THEN Serve(req, Rejected(denied[1]))
            ELSE \E now \in Clock, rnd \in RandomStreams :
                     Serve(req, get_metric_data_points(req, METRICS, now, rnd))

HealthCheck ==
    /\ request = None
    /\ Serve([route |-> "/health", method |-> "GET"], health_check)

Root ==
    /\ request = None
    /\ Serve([route |-> "/", method |-> "GET"], root)

\* the response is sent and the request context is torn down
EndRequest ==
    /\ request # None
    /\ response # None
    /\ request' = None
    /\ response' = None
    /\ handler' = ""
    /\ stdout' = <<>>
    /\ env' = NoEnv
    /\ UNCHANGED <<METRICS, VALID_API_TOKENS, frame, threads, random_state>>

Next ==
    \/ ListMetrics
    \/ QueryMetrics
    \/ GetMetricDataPoints
    \/ HealthCheck
    \/ Root
    \/ EndRequest

Spec == Init /\ [][Next]_vars

----------------------------------------------------------------------------
(* SpecCore: the selector parse, the metric lookup and the two generators called
   directly, as test_splitby.py calls them, on inputs the built-in catalogue and the
   routes do not produce (other catalogues, other metric identifiers). *)

CoreSegments == Segments \cup {txt_limit}

CoreSelectors ==
    {b \o s : b \in {<<>>, id_keyRequest_count, txt_x},
              s \in Suffixes(CoreSegments, MaxSegs)}

\* catalogues handed to the lookup: empty, the built-in one, a reordered part, a single entry
Catalogues ==
    { <<>>, BUILTIN_METRICS,
      <<metric_keyRequest_count, metric_request_count, metric_cpu_usage>>,
      <<metric_disk_avail>> }

LookupSelectors ==
    {b \o s : b \in {<<>>, id_cpu_usage, id_keyRequest_count, kw_service, kw_request_count,
                     txt_usage, txt_x},
              s \in Suffixes(Segments, 1)}

GenIds ==
    { id_cpu_usage, id_mem_usage, id_response_time, id_request_count, id_disk_avail,
      id_crashCount, id_keyRequest_count,
      <<>>, txt_x, kw_service, txt_Disk, txt_mem_disk, txt_disk_cpu, txt_crash_req,
      txt_rt_crash }

GenResolutions == {"1m", "5m", "1h", "1d", "", "1M", "2m"}

GenFroms == {0, 1000000}

TableIntervals == {60000, 300000, 3600000, 86400000}

\* to - from: before the start, whole numbers of intervals, the same plus a remainder
GenDeltas ==
    {0 - 1, 1000000}
        \cup {k * i + r : i \in TableIntervals, k \in 0..MaxSteps, r \in {0, 3000}}

GenCalls ==
    { [metric_id |-> id, from_ts |-> f, to_ts |-> f + d, resolution |-> r, rnd |-> s] :
      id \in GenIds, f \in GenFroms, d \in GenDeltas, r \in GenResolutions,
      s \in RandomStreams }

\* the generator calls of SpecCore are those whose range holds at most MaxPoints points
RangeFits(c, interval) == c.to_ts - c.from_ts < MaxPoints * interval

Called(fn, args, result, rnd) ==
    /\ request' = Some([fn |-> fn, args |-> args])
    /\ response' = Some(result)
    /\ handler' = fn
    /\ stdout' = <<>>
    /\ env' = [now |-> None, rnd |-> rnd]
    /\ UNCHANGED <<METRICS, VALID_API_TOKENS, frame, threads, random_state>>

CallParseSelector ==
    /\ request = None
    /\ \E s \in CoreSelectors :
           Called("parse_selector", [metric_selector |-> s], parse_selector(s), None)

\* query_metrics over a given catalogue, by an authenticated GET for 0 .. 300000
CallQueryLookup ==
    /\ request = None
    /\ \E c \in Catalogues, s \in LookupSelectors, rnd \in RandomStreams :
           LET req == [ route   |-> "/api/v2/metrics/query",
                        method  |-> "GET",
                        headers |-> [Authorization |-> Some(hdr_valid_test)],
                        params  |-> [ metricSelector |-> Some(s),
                                      from |-> Some(StrVal(txt_0)),
                                      to |-> Some(StrVal(txt_300000)),
                                      resolution |-> Some("5m") ] ]
               out == query_metrics(req, c, <<5000000, 5000000>>, rnd)
           IN  /\ request' = Some([fn |-> "query_metrics", args |-> [catalogue |-> c, req |-> req]])
               /\ response' = Some(out.response)
               /\ handler' = "query_metrics"
               /\ stdout' = out.stdout
               /\ env' = out.env
               /\ UNCHANGED <<METRICS, VALID_API_TOKENS, frame, threads, random_state>>

CallGetMockDataPoints ==
    /\ request = None
    /\ \E c \in GenCalls :
           /\ RangeFits(c, flat_interval(c.resolution))
           /\ Called("get_mock_data_points", c,
                  get_mock_data_points(c.metric_id, c.from_ts, c.to_ts, c.resolution, c.rnd),
                  Some(c.rnd))

CallGetMockMultiSeriesData ==
    /\ request = None
    /\ \E c \in GenCalls :
           /\ RangeFits(c, multi_interval(c.resolution))
           /\ Called("get_mock_multi_series_data", c,
                  get_mock_multi_series_data(c.metric_id, c.from_ts, c.to_ts, c.resolution, c.rnd),
                  Some(c.rnd))

CoreNext ==
    \/ CallParseSelector
    \/ CallQueryLookup
    \/ CallGetMockDataPoints
    \/ CallGetMockMultiSeriesData
    \/ EndRequest

SpecCore == Init /\ [][CoreNext]_vars

----------------------------------------------------------------------------
(* SpecLoop: the two generators run statement by statement.  frame holds the locals of
   the running call: the interval, the cursor current_ts and the list built so far
   (data_points, or timestamps); the call returns when the loop test fails.  A running
   call takes its next step (weak fairness on the steps and on the returns). *)

LoopIds == {id_cpu_usage, id_keyRequest_count, txt_x}

LoopCalls == {c \in GenCalls : c.metric_id \in LoopIds /\ c.rnd = <<0, 1, RandScale>>}

Running(fn) == request # None /\ response = None /\ frame # None /\ handler = fn

Enter(fn, c, interval) ==
    /\ request' = Some([fn |-> fn, args |-> c])
    /\ response' = None
    /\ handler' = fn
    /\ stdout' = <<>>
    /\ env' = [now |-> None, rnd |-> Some(c.rnd)]
    /\ frame' = Some([interval |-> interval, current_ts |-> c.from_ts, list |-> <<>>])
    /\ UNCHANGED <<METRICS, VALID_API_TOKENS, threads, random_state>>

\* mock_data.py lines 197-207
EnterGetMockDataPoints ==
    /\ request = None
    /\ \E c \in LoopCalls :
           /\ RangeFits(c, flat_interval(c.resolution))
           /\ Enter("get_mock_data_points", c, flat_interval(c.resolution))

\* mock_data.py lines 249-260
EnterGetMockMultiSeriesData ==
    /\ request = None
    /\ \E c \in LoopCalls :
           /\ RangeFits(c, multi_interval(c.resolution))
           /\ Enter("get_mock_multi_series_data", c, multi_interval(c.resolution))

\* one iteration of the while loop: `item` is appended and the cursor advances
LoopStep(item) ==
    /\ frame[1].current_ts <= request[1].args.to_ts
    /\ Len(frame[1].list) < MaxPoints
    /\ frame' = Some([ interval   |-> frame[1].interval,
                       current_ts |-> cursor_advance(frame[1].current_ts, frame[1].interval),
                       list       |-> Append(frame[1].list, item) ])
    /\ UNCHANGED <<METRICS, VALID_API_TOKENS, request, response, handler, stdout, env,
                   threads, random_state>>

\* mock_data.py lines 210-226
StepGetMockDataPoints ==
    /\ Running("get_mock_data_points")
    /\ LoopStep(<< frame[1].current_ts,
                   point_value(request[1].args.metric_id,
                               Draw(request[1].args.rnd, Len(frame[1].list) + 1)) >>)

\* mock_data.py lines 261-263
StepGetMockMultiSeriesData ==
    /\ Running("get_mock_multi_series_data")
    /\ LoopStep(frame[1].current_ts)

\* the loop test fails and the call returns `result`
LoopExit(result) ==
    /\ frame[1].current_ts > request[1].args.to_ts
    /\ response' = Some(result)
    /\ frame' = None
    /\ UNCHANGED <<METRICS, VALID_API_TOKENS, request, handler, stdout, env,
                   threads, random_state>>

\* mock_data.py line 228
ReturnGetMockDataPoints ==
    /\ Running("get_mock_data_points")
    /\ LoopExit(frame[1].list)

\* mock_data.py lines 265-307
ReturnGetMockMultiSeriesData ==
    /\ Running("get_mock_multi_series_data")
    /\ LoopExit(series_of(request[1].args.metric_id, frame[1].list, request[1].args.rnd))

LoopRun ==
    \/ StepGetMockDataPoints
    \/ StepGetMockMultiSeriesData
    \/ ReturnGetMockDataPoints
    \/ ReturnGetMockMultiSeriesData

LoopNext ==
    \/ EnterGetMockDataPoints
    \/ EnterGetMockMultiSeriesData
    \/ LoopRun
    \/ EndRequest

SpecLoop == Init /\ [][LoopNext]_vars /\ WF_vars(LoopRun)

----------------------------------------------------------------------------
(* SpecThreads: the server with several requests in flight.  Each worker thread runs
   decorated_function and a view function statement by statement, with its own request
   and local variables; the threads share the module's METRICS and VALID_API_TOKENS,
   which every step reads at the moment it runs, and the one generator of the random
   module, of which random_state is the number of values drawn so far (within the
   period of the stream).  A step of one thread may come between any two steps of
   another. *)

\* the values the random module's generator yields, one after the other
ThreadStream == <<0, RandScale>>

\* the generator's position after `draws` more values
random_after(drawn, draws) == (drawn + draws) % Len(ThreadStream)

ThreadQuery(h, m, sel, from, to, res) ==
    [ route   |-> "/api/v2/metrics/query",
      method  |-> m,
      headers |-> [Authorization |-> h],
      params  |-> [metricSelector |-> Some(sel), from |-> Some(from), to |-> Some(to),
                   resolution |-> res] ]

ThreadDataPoints(id, from) ==
    [ route     |-> "/api/v2/metrics/<path:metric_id>",
      method    |-> "GET",
      headers   |-> [Authorization |-> Some(hdr_valid_test)],
      metric_id |-> id,
      args      |-> [from |-> from, to |-> Some(StrVal(txt_0)), resolution |-> None] ]

\* the routes whose view function require_api_token decorates
AuthenticatedRoutes ==
    {"/api/v2/metrics", "/api/v2/metrics/query", "/api/v2/metrics/<path:metric_id>"}

\* the requests the threads serve: the two open routes, a filtered list, the
\* multi-series query of test_splitby.py, a rejected query, and data-points requests
\* answered 200, 404 and 400
ThreadRequests ==
    { [route |-> "/health", method |-> "GET"],
      [route |-> "/", method |-> "GET"],
      [ route   |-> "/api/v2/metrics",
        method  |-> "GET",
        headers |-> [Authorization |-> Some(hdr_valid_test)],
        args    |-> [metricSelector |-> Some(kw_cpu), text |-> None, pageSize |-> None] ],
      ThreadQuery(Some(hdr_valid_test), "POST", sel_keyRequest_splitBy,
                  IntVal(1000000), IntVal(1003000), Some("5m")),
      ThreadQuery(Some(hdr_invalid_token), "GET", id_cpu_usage,
                  StrVal(txt_0), StrVal(txt_60000), None),
      ThreadDataPoints(id_cpu_usage, Some(StrVal(txt_0))),
      ThreadDataPoints(kw_cpu, Some(StrVal(txt_0))),
      ThreadDataPoints(id_cpu_usage, None) }

At(t, pc) == threads[t].pc = pc

OnRoute(t, route) == threads[t].request[1].route = route

\* the thread goes on to `pc` with these local variables
Goto(t, pc, locals) ==
    threads' = [threads EXCEPT ![t] = [request  |-> threads[t].request,
                                       pc       |-> pc,
                                       locals   |-> locals,
                                       response |-> None]]

\* the view function, or decorated_function, returns `resp`
Return(t, resp) ==
    threads' = [threads EXCEPT ![t] = [request  |-> threads[t].request,
                                       pc       |-> "done",
                                       locals   |-> threads[t].locals,
                                       response |-> Some(resp)]]

\* the generator is entered: interval, current_ts = from_ts and the empty list
EnterGenerator(t, metric_id, echoed, from_ts, to_ts, resolution, interval) ==
    Goto(t, "loop",
         [threads[t].locals EXCEPT !.metric_id = metric_id, !.echoed = echoed,
                                   !.resolution = resolution, !.to_ts = to_ts,
                                   !.interval = interval, !.current_ts = from_ts,
                                   !.list = <<>>, !.draws = <<>>])

\* a request arrives and is given to an idle thread
Accept(t) ==
    /\ At(t, "idle")
    /\ \E req \in ThreadRequests :
           threads' = [threads EXCEPT ![t] = [request  |-> Some(req),
                                              pc       |-> IF req.route \in AuthenticatedRoutes
                                                           THEN "decorated_function"
                                                           ELSE "view",
                                              locals   |-> NoLocals,
                                              response |-> None]]
    /\ UNCHANGED <<METRICS, VALID_API_TOKENS, request, response, handler, stdout, env,
                   frame, random_state>>

\* app.py lines 27-61: the token is looked up in VALID_API_TOKENS
Authenticate(t) ==
    /\ At(t, "decorated_function")
    /\ LET denied == require_api_token(threads[t].request[1].headers, VALID_API_TOKENS)
       IN  IF denied # None
           THEN Return(t, denied[1])
           ELSE Goto(t, "view", threads[t].locals)
    /\ UNCHANGED <<METRICS, VALID_API_TOKENS, request, response, handler, stdout, env,
                   frame, random_state>>

\* app.py lines 338-341: health_check
ThreadHealthCheck(t) ==
    /\ At(t, "view")
    /\ OnRoute(t, "/health")
    /\ Return(t, health_check.response)
    /\ UNCHANGED <<METRICS, VALID_API_TOKENS, request, response, handler, stdout, env,
                   frame, random_state>>

\* app.py lines 344-362: root
ThreadRoot(t) ==
    /\ At(t, "view")
    /\ OnRoute(t, "/")
    /\ Return(t, root.response)
    /\ UNCHANGED <<METRICS, VALID_API_TOKENS, request, response, handler, stdout, env,
                   frame, random_state>>

\* variant: the filters of list_metrics are applied to METRICS itself
ThreadListMetrics_in_place(t) ==
    /\ At(t, "view")
    /\ OnRoute(t, "/api/v2/metrics")
    /\ Return(t, list_metrics(threads[t].request[1], METRICS).response)
    /\ METRICS' = list_metrics(threads[t].request[1], METRICS).response.body.metrics
    /\ UNCHANGED <<VALID_API_TOKENS, request, response, handler, stdout, env,
                   frame, random_state>>

\* app.py lines 68-112: METRICS is read once, by METRICS.copy() at line 84; the filters
\* and the slice rebind the local filtered_metrics and paginated_metrics
ThreadListMetrics(t) ==
    /\ At(t, "view")
    /\ OnRoute(t, "/api/v2/metrics")
    /\ Return(t, list_metrics(threads[t].request[1], METRICS).response)
    /\ UNCHANGED <<METRICS, VALID_API_TOKENS, request, response, handler, stdout, env,
                   frame, random_state>>

\* app.py lines 135-192: the parameters, the parse of the selector and the lookup of
\* the entry whose metricId is the base id
QueryLookupExact(t) ==
    /\ At(t, "view")
    /\ OnRoute(t, "/api/v2/metrics/query")
    /\ LET metric_selector == get_or(threads[t].request[1].params.metricSelector, <<>>)
           base_metric_id  == base_metric_id_of(metric_selector)
           matching_metric == IF base_metric_id # <<>>
                              THEN exact_match(METRICS, base_metric_id)
                              ELSE None
       IN  Goto(t, "lookup_partial",
                [threads[t].locals EXCEPT !.base_metric_id = base_metric_id,
                                          !.has_split_by = has_split_by_of(metric_selector),
                                          !.matching_metric = matching_metric])
    /\ UNCHANGED <<METRICS, VALID_API_TOKENS, request, response, handler, stdout, env,
                   frame, random_state>>

\* app.py lines 194-195: the first entry whose metricId contains the base id
QueryLookupPartial(t) ==
    /\ At(t, "lookup_partial")
    /\ LET locals == threads[t].locals
       IN  IF locals.matching_metric = None /\ locals.base_metric_id # <<>>
           THEN Goto(t, "lookup_first",
                     [locals EXCEPT !.matching_metric =
                                        partial_match(METRICS, locals.base_metric_id)])
           ELSE Goto(t, "lookup_first", locals)
    /\ UNCHANGED <<METRICS, VALID_API_TOKENS, request, response, handler, stdout, env,
                   frame, random_state>>

\* app.py lines 198-199: the first entry of METRICS
QueryLookupFirst(t) ==
    /\ At(t, "lookup_first")
    /\ LET locals == threads[t].locals
       IN  IF locals.matching_metric = None
           THEN Goto(t, "matched", [locals EXCEPT !.matching_metric = first_metric(METRICS)])
           ELSE Goto(t, "matched", locals)
    /\ UNCHANGED <<METRICS, VALID_API_TOKENS, request, response, handler, stdout, env,
                   frame, random_state>>

\* app.py lines 203-239 and mock_data.py lines 197-208, 249-260: 404 without an entry,
\* else int() of from and to and the call of the generator for the matched entry's id
QueryCallGenerator(t) ==
    /\ At(t, "matched")
    /\ LET req        == threads[t].request[1]
           locals     == threads[t].locals
           resolution == get_or(req.params.resolution, "1m")
           from_ts    == py_int(req.params.from[1])
           to_ts      == py_int(req.params.to[1])
       IN  IF locals.matching_metric = None
           THEN Return(t, error_response(404,
                             [fmt |-> "No metrics found matching selector '{}'",
                              arg |-> get_or(req.params.metricSelector, <<>>)]))
           ELSE IF from_ts = None \/ to_ts = None
           THEN Return(t, unhandled_exception("ValueError"))
           ELSE EnterGenerator(t, locals.matching_metric[1].metricId,
                               echoed_metric_id(locals.base_metric_id,
                                                locals.matching_metric[1].metricId),
                               from_ts[1], to_ts[1], resolution,
                               IF locals.has_split_by THEN multi_interval(resolution)
                               ELSE flat_interval(resolution))
    /\ UNCHANGED <<METRICS, VALID_API_TOKENS, request, response, handler, stdout, env,
                   frame, random_state>>

\* app.py lines 280-309 and mock_data.py lines 197-208: 400 without 'from', the lookup
\* of the path's id in METRICS, 404 without an entry, else the call of the generator
DataPointsCallGenerator(t) ==
    /\ At(t, "view")
    /\ OnRoute(t, "/api/v2/metrics/<path:metric_id>")
    /\ LET req        == threads[t].request[1]
           resolution == get_or(req.args.resolution, "1m")
           from_ts    == py_int(req.args.from[1])
           to_ts      == py_int(req.args.to[1])
       IN  IF is_falsy(req.args.from)
           THEN Return(t, error_response(400, "Missing required parameter 'from'"))
           ELSE IF strict_metric_of(METRICS, req.metric_id) = None
           THEN Return(t, error_response(404,
                             [fmt |-> "Metric '{}' not found", arg |-> req.metric_id]))
           ELSE IF from_ts = None \/ to_ts = None
           THEN Return(t, unhandled_exception("ValueError"))
           ELSE EnterGenerator(t, req.metric_id, req.metric_id, from_ts[1], to_ts[1],
                               resolution, flat_interval(resolution))
    /\ UNCHANGED <<METRICS, VALID_API_TOKENS, request, response, handler, stdout, env,
                   frame, random_state>>

\* mock_data.py lines 210-226 and 261-263: one iteration of the while loop; the flat
\* generator draws the point's value from the shared random generator
GeneratorStep(t) ==
    /\ At(t, "loop")
    /\ LET locals == threads[t].locals
           item   == IF locals.has_split_by
                     THEN locals.current_ts
                     ELSE << locals.current_ts,
                             point_value(locals.metric_id,
                                         Draw(ThreadStream, random_state + 1)) >>
       IN  /\ locals.current_ts <= locals.to_ts
           /\ Len(locals.list) < MaxPoints
           /\ Goto(t, "loop",
                   [locals EXCEPT !.current_ts = cursor_advance(locals.current_ts,
                                                                locals.interval),
                                  !.list = Append(locals.list, item)])
           /\ random_state' = IF locals.has_split_by THEN random_state
                              ELSE random_after(random_state, 1)
    /\ UNCHANGED <<METRICS, VALID_API_TOKENS, request, response, handler, stdout, env, frame>>

\* the number of values the series of get_mock_multi_series_data hold together: one
\* per timestamp for each of the three fixture series, or for the default series
series_values(metric_id, timestamps) ==
    IF is_service_metric(metric_id) THEN 3 * Len(timestamps) ELSE Len(timestamps)

\* mock_data.py lines 275, 284, 293 and 303: the list comprehensions of the series draw
\* their values one call of the shared random generator at a time, series by series
GeneratorSeriesDraw(t) ==
    /\ At(t, "loop")
    /\ LET locals == threads[t].locals
       IN  /\ locals.current_ts > locals.to_ts
           /\ locals.has_split_by
           /\ Len(locals.draws) < series_values(locals.metric_id, locals.list)
           /\ Goto(t, "loop",
                   [locals EXCEPT !.draws = Append(locals.draws,
                                                   Draw(ThreadStream, random_state + 1))])
           /\ random_state' = random_after(random_state, 1)
    /\ UNCHANGED <<METRICS, VALID_API_TOKENS, request, response, handler, stdout, env, frame>>

\* mock_data.py lines 228 and 265-307, app.py lines 219-262 and 311-335: the generator
\* returns its list, of points or of the series with the values drawn, and the view
\* function returns the data envelope
GeneratorReturn(t) ==
    /\ At(t, "loop")
    /\ LET locals == threads[t].locals
           series == series_of(locals.metric_id, locals.list, locals.draws)
       IN  /\ locals.current_ts > locals.to_ts
           /\ IF locals.has_split_by
              THEN /\ Len(locals.draws) = series_values(locals.metric_id, locals.list)
                   /\ Return(t, data_response(Len(series), locals.resolution,
                                              locals.echoed, series))
              ELSE Return(t, data_response(1, locals.resolution, locals.echoed,
                                           <<flat_entry(locals.list)>>))
    /\ UNCHANGED <<METRICS, VALID_API_TOKENS, request, response, handler, stdout, env,
                   frame, random_state>>

\* the response is sent; the thread's request and local variables are gone
Finish(t) ==
    /\ At(t, "done")
    /\ threads' = [threads EXCEPT ![t] = IdleThread]
    /\ UNCHANGED <<METRICS, VALID_API_TOKENS, request, response, handler, stdout, env,
                   frame, random_state>>

ThreadsNext ==
    \E t \in Threads :
        \/ Accept(t)
        \/ Authenticate(t)
        \/ ThreadHealthCheck(t)
        \/ ThreadRoot(t)
        \/ ThreadListMetrics(t)
        \/ QueryLookupExact(t)
        \/ QueryLookupPartial(t)
        \/ QueryLookupFirst(t)
        \/ QueryCallGenerator(t)
        \/ DataPointsCallGenerator(t)
        \/ GeneratorStep(t)
        \/ GeneratorSeriesDraw(t)
        \/ GeneratorReturn(t)
        \/ Finish(t)

SpecThreads == Init /\ [][ThreadsNext]_vars

----------------------------------------------------------------------------
(* Properties.  They are stated over what a served request leaves behind, in terms of
   substring occurrence written out here and not of the operators above. *)

\* sub occurs in s at index i
OccursAt(s, sub, i) ==
    /\ i >= 1
    /\ i + Len(sub) - 1 <= Len(s)
    /\ SubSeq(s, i, i + Len(sub) - 1) = sub

Occurs(s, sub) == \E i \in 1..(Len(s) + 1) : OccursAt(s, sub, i)

\* the text of s before the first occurrence of sub, for a sub that occurs in s
TextBefore(s, sub) ==
    LET i == CHOOSE k \in 1..(Len(s) + 1) :
                 OccursAt(s, sub, k) /\ \A j \in 1..(k - 1) : ~OccursAt(s, sub, j)
    IN  SubSeq(s, 1, i - 1)

\* the routes behind require_api_token
ProtectedRoutes ==
    {"/api/v2/metrics", "/api/v2/metrics/query", "/api/v2/metrics/<path:metric_id>"}

Serving(route) == request # None /\ request[1].route = route

\* the header is 'Api-Token', one space, and a token of the accepted set
HeaderAccepted(h) ==
    /\ h # None
    /\ \E i \in 1..Len(VALID_API_TOKENS) :
           h[1] = scheme_ApiToken \o <<" ">> \o VALID_API_TOKENS[i]

\* the response is the error envelope {error: {code, message}} with this status
IsErrorEnvelope(resp, code) ==
    /\ resp.status = code
    /\ DOMAIN resp.body = {"error"}
    /\ DOMAIN resp.body.error = {"code", "message"}
    /\ resp.body.error.code = code

\* the response is the data envelope with at least one data entry
IsDataEnvelope(resp) ==
    /\ resp.status = 200
    /\ DOMAIN resp.body = {"totalCount", "nextPageKey", "resolution", "result"}
    /\ Len(resp.body.result) = 1
    /\ Len(resp.body.result[1].data) >= 1

\* C1: on the list, data-points and query routes a request whose Authorization header
\* is absent, empty, not 'Api-Token <token>' or carries a token outside the accepted
\* set is answered 401 with the error envelope and no view function runs (no debug
\* output, no clock reading, no random draw); a view function runs only for an
\* accepted token.
C1_UnauthorizedNeverReachesHandler ==
    (request # None /\ request[1].route \in ProtectedRoutes) =>
        /\ ~HeaderAccepted(request[1].headers.Authorization) =>
               /\ IsErrorEnvelope(response[1], 401)
               /\ handler = ""
               /\ stdout = <<>>
               /\ env = NoEnv
        /\ handler # "" => HeaderAccepted(request[1].headers.Authorization)

C1_Witness ==
    /\ Serving("/api/v2/metrics/query")
    /\ request[1].headers.Authorization = Some(hdr_invalid_token)
    /\ response[1].status = 401
    /\ handler = ""

\* C2: the parsed base metric id is the whole selector when it holds none of the three
\* markers, else the text before the first ':filter(' when that marker is present, else
\* before the first ':splitBy(' when that one is, else before the first ':sort('
\* (priority filter, splitBy, sort; not the leftmost marker of the text).
C2_BaseIdByMarkerPriority ==
    (request # None /\ handler = "parse_selector") =>
        LET sel == request[1].args.metric_selector
        IN  response[1].base_metric_id =
                IF Occurs(sel, MARK_FILTER) THEN TextBefore(sel, MARK_FILTER)
                ELSE IF Occurs(sel, MARK_SPLITBY) THEN TextBefore(sel, MARK_SPLITBY)
                ELSE IF Occurs(sel, MARK_SORT) THEN TextBefore(sel, MARK_SORT)
                ELSE sel

\* a selector whose ':splitBy(' precedes its ':filter(': the base id keeps the splitBy text
C2_Witness ==
    /\ request # None
    /\ handler = "parse_selector"
    /\ Occurs(request[1].args.metric_selector, MARK_FILTER)
    /\ Occurs(response[1].base_metric_id, MARK_SPLITBY)
    /\ Occurs(response[1].base_metric_id, id_keyRequest_count)

\* the metric id the three-step fallback yields over a catalogue: None when it is empty
FallbackId(catalogue, base) ==
    LET exact   == {i \in 1..Len(catalogue) : catalogue[i].metricId = base}
        partial == {i \in 1..Len(catalogue) : Occurs(catalogue[i].metricId, base)}
        least(S) == CHOOSE i \in S : \A j \in S : i <= j
    IN  IF exact # {} THEN Some(catalogue[least(exact)].metricId)
        ELSE IF base # <<>> /\ partial # {} THEN Some(catalogue[least(partial)].metricId)
        ELSE IF catalogue # <<>> THEN Some(catalogue[1].metricId)
        ELSE None

\* C3: query_metrics matches the parsed base id by the three-step fallback (the entry
\* with that id; else, for a non-empty base id, the first entry whose id contains it;
\* else the first entry) and answers 404 exactly when the catalogue is empty.
C3_LookupFallback ==
    (request # None /\ handler = "query_metrics" /\ "fn" \in DOMAIN request[1]) =>
        LET catalogue == request[1].args.catalogue
            base      == stdout[2].value
            matched   == stdout[4].value
        IN  /\ matched = FallbackId(catalogue, base)
            /\ (response[1].status = 404) <=> (catalogue = <<>>)
            /\ response[1].status = 404 => IsErrorEnvelope(response[1], 404)
            /\ matched = None <=> catalogue = <<>>

\* a substring match on an entry that is not the first of the catalogue
C3_Witness ==
    /\ request # None
    /\ handler = "query_metrics"
    /\ "fn" \in DOMAIN request[1]
    /\ request[1].args.catalogue = BUILTIN_METRICS
    /\ stdout[2].value = kw_request_count
    /\ stdout[4].value = Some(id_request_count)
    /\ response[1].status = 200

\* C4: get_metric_data_points, for a valid token and a non-empty 'from', answers 404
\* with the error envelope whenever the id of the path equals no catalogue metricId,
\* also when the id is a substring of one and although the fallback of query_metrics
\* yields an entry for it; it answers 200 only on an exact match.
C4_StrictLookupByPath ==
    (/\ Serving("/api/v2/metrics/<path:metric_id>")
     /\ HeaderAccepted(request[1].headers.Authorization)
     /\ request[1].args.from # None
     /\ request[1].args.from[1].s # <<>>) =>
        LET id    == request[1].metric_id
            exact == \E i \in 1..Len(METRICS) : METRICS[i].metricId = id
        IN  /\ ~exact => /\ IsErrorEnvelope(response[1], 404)
                         /\ FallbackId(METRICS, id) # None
            /\ response[1].status = 200 => exact
            /\ response[1].status = 404 => ~exact

\* an id that is a substring of a catalogue id is not found
C4_Witness ==
    /\ Serving("/api/v2/metrics/<path:metric_id>")
    /\ HeaderAccepted(request[1].headers.Authorization)
    /\ request[1].metric_id = kw_cpu
    /\ request[1].args.from = Some(StrVal(txt_0))
    /\ response[1].status = 404

\* the step of a resolution by the table of the generators, `default` for any other string
StepOf(resolution, default) ==
    IF resolution = "1m" THEN 60000
    ELSE IF resolution = "5m" THEN 300000
    ELSE IF resolution = "1h" THEN 3600000
    ELSE IF resolution = "1d" THEN 86400000
    ELSE default

\* from, from + I, from + 2I, ... up to to: floor((to - from) / I) + 1 timestamps
ExpectedTimestamps(from, to, I) ==
    IF from > to THEN <<>>
    ELSE [i \in 1..((to - from) \div I + 1) |-> from + (i - 1) * I]

\* the timestamps of the list of [timestamp, value] pairs of get_mock_data_points
PairTimestamps(points) == [i \in 1..Len(points) |-> points[i][1]]

StrictlyIncreasing(ts) == \A i \in 1..(Len(ts) - 1) : ts[i] < ts[i + 1]

\* C5: get_mock_data_points returns no point when from > to, and otherwise
\* floor((to - from) / I) + 1 points at from, from + I, from + 2I, ..., strictly
\* increasing, none after to, the point at to present exactly when I divides to - from;
\* (1000000, 1003000, '1m') gives the one timestamp 1000000 and (0, 300000, '5m') gives
\* 0 and 300000.
C5_FlatWalk ==
    (request # None /\ handler = "get_mock_data_points") =>
        LET a  == request[1].args
            I  == StepOf(a.resolution, 60000)
            ts == PairTimestamps(response[1])
        IN  /\ a.from_ts > a.to_ts => response[1] = <<>>
            /\ a.from_ts <= a.to_ts =>
                   /\ Len(ts) = (a.to_ts - a.from_ts) \div I + 1
                   /\ \A i \in 1..Len(ts) : ts[i] = a.from_ts + (i - 1) * I
                   /\ StrictlyIncreasing(ts)
                   /\ \A i \in 1..Len(ts) : ts[i] <= a.to_ts
                   /\ (\E i \in 1..Len(ts) : ts[i] = a.to_ts)
                          <=> ((a.to_ts - a.from_ts) % I = 0)
            /\ (a.from_ts = 1000000 /\ a.to_ts = 1003000 /\ a.resolution = "1m")
                   => ts = <<1000000>>
            /\ (a.from_ts = 0 /\ a.to_ts = 300000 /\ a.resolution = "5m")
                   => ts = <<0, 300000>>

C5_Witness ==
    /\ request # None
    /\ handler = "get_mock_data_points"
    /\ request[1].args.from_ts = 0
    /\ request[1].args.to_ts = 300000
    /\ request[1].args.resolution = "5m"
    /\ PairTimestamps(response[1]) = <<0, 300000>>

\* C6: both generators step by 60000 for '1m', 300000 for '5m', 3600000 for '1h' and
\* 86400000 for '1d'; for any other resolution get_mock_data_points steps by 60000 and
\* get_mock_multi_series_data by 300000.
C6_ResolutionTable ==
    request # None =>
        /\ handler = "get_mock_data_points" =>
               PairTimestamps(response[1])
                   = ExpectedTimestamps(request[1].args.from_ts, request[1].args.to_ts,
                                        StepOf(request[1].args.resolution, 60000))
        /\ handler = "get_mock_multi_series_data" =>
               \A k \in 1..Len(response[1]) :
                   response[1][k].timestamps
                       = ExpectedTimestamps(request[1].args.from_ts, request[1].args.to_ts,
                                            StepOf(request[1].args.resolution, 300000))

\* an unrecognised resolution in the multi-series generator: steps of 300000
C6_Witness ==
    /\ request # None
    /\ handler = "get_mock_multi_series_data"
    /\ request[1].args.resolution = "2m"
    /\ request[1].args.from_ts = 0
    /\ request[1].args.to_ts = 600000
    /\ response[1][1].timestamps = <<0, 300000, 600000>>

\* the value range of the first rule a metric identifier matches: <<low, high>>
\* (the 'disk' range in thousands)
RangeOf(metric_id) ==
    IF Occurs(metric_id, kw_cpu) \/ Occurs(metric_id, kw_mem) THEN <<20, 90>>
    ELSE IF Occurs(metric_id, kw_response_time) THEN <<100, 5000>>
    ELSE IF Occurs(metric_id, kw_request_count) \/ Occurs(metric_id, kw_keyRequest_count)
    THEN <<1000, 2800>>
    ELSE IF Occurs(metric_id, kw_crashCount) THEN <<0, 50>>
    ELSE IF Occurs(metric_id, kw_disk) THEN <<1000000, 10000000>>
    ELSE <<0, 100>>

InRange(v, range) == range[1] <= v /\ v <= range[2]

\* C7: every value of get_mock_data_points lies in the range of the first rule, in the
\* order cpu/mem, response.time, request.count/keyRequest.count, crashCount, disk,
\* default, that the metric identifier matches by case-sensitive containment; the same
\* rule serves every point of a call.
C7_ValueRangeByFirstRule ==
    (request # None /\ handler = "get_mock_data_points") =>
        \A i \in 1..Len(response[1]) :
            InRange(response[1][i][2], RangeOf(request[1].args.metric_id))

\* an identifier holding both 'mem' and 'disk' gets the cpu/mem range
C7_Witness ==
    /\ request # None
    /\ handler = "get_mock_data_points"
    /\ request[1].args.metric_id = txt_mem_disk
    /\ Len(response[1]) >= 2
    /\ response[1][1][2] = 90
    /\ response[1][2][2] = 90

\* C8: get_mock_multi_series_data returns three series when the identifier contains
\* 'keyRequest.count' or 'service' and one series otherwise.  The three series share
\* the timestamps of the cursor walk, carry the one dimension label
\* 'dt.entity.service_method' and values in 2000..2800, 1000..1400 and 500..1000; the
\* single series has no dimension label, an empty dimension map and values in 0..100.
C8_SeriesCountAndRanges ==
    (request # None /\ handler = "get_mock_multi_series_data") =>
        LET a      == request[1].args
            series == response[1]
            walk   == ExpectedTimestamps(a.from_ts, a.to_ts, StepOf(a.resolution, 300000))
            ranges == << <<2000, 2800>>, <<1000, 1400>>, <<500, 1000>> >>
        IN  IF Occurs(a.metric_id, kw_keyRequest_count) \/ Occurs(a.metric_id, kw_service)
            THEN /\ Len(series) = 3
                 /\ \A k \in 1..3 :
                        /\ series[k].timestamps = walk
                        /\ series[k].timestamps = series[1].timestamps
                        /\ series[k].dimensions = <<"dt.entity.service_method">>
                        /\ Len(series[k].values) = Len(walk)
                        /\ \A i \in 1..Len(series[k].values) :
                               InRange(series[k].values[i], ranges[k])
            ELSE /\ Len(series) = 1
                 /\ series[1].timestamps = walk
                 /\ series[1].dimensions = <<>>
                 /\ DOMAIN series[1].dimensionMap = {}
                 /\ Len(series[1].values) = Len(walk)
                 /\ \A i \in 1..Len(series[1].values) :
                        InRange(series[1].values[i], <<0, 100>>)

\* 'service' alone selects the three series
C8_Witness ==
    /\ request # None
    /\ handler = "get_mock_multi_series_data"
    /\ request[1].args.metric_id = kw_service
    /\ Len(response[1]) = 3
    /\ Len(response[1][1].timestamps) >= 2
    /\ response[1][1].values[1] = 2800
    /\ response[1][2].values[1] = 1400
    /\ response[1][3].values[1] = 1000

\* C9: in every 200 response of get_metric_data_points and query_metrics, flat or
\* multi-series, each entry of data has as many values as timestamps and its
\* timestamps increase strictly; for from > to both lists are empty.
C9_TimestampsAndValuesAligned ==
    ((Serving("/api/v2/metrics/query") \/ Serving("/api/v2/metrics/<path:metric_id>"))
        /\ response[1].status = 200) =>
        LET data == response[1].body.result[1].data
        IN  \A k \in 1..Len(data) :
                /\ Len(data[k].timestamps) = Len(data[k].values)
                /\ StrictlyIncreasing(data[k].timestamps)

\* a multi-series answer with several points in each of its three series
C9_Witness ==
    /\ Serving("/api/v2/metrics/query")
    /\ response[1].status = 200
    /\ Len(response[1].body.result[1].data) = 3
    /\ \A k \in 1..3 :
           /\ Len(response[1].body.result[1].data[k].timestamps) >= 2
           /\ Len(response[1].body.result[1].data[k].values) >= 2

\* a decimal numeral with an optional sign
IsIntegerText(s) ==
    /\ s # <<>>
    /\ LET body == IF s[1] \in {"+", "-"} THEN Tail(s) ELSE s
       IN  /\ body # <<>>
           /\ \A i \in 1..Len(body) :
                  body[i] \in {"0", "1", "2", "3", "4", "5", "6", "7", "8", "9"}

\* a from/to parameter that is absent or integer-valued
AbsentOrInteger(x) ==
    \/ x = None
    \/ x[1].t = "int"
    \/ (x[1].t = "str" /\ IsIntegerText(x[1].s))

\* C10: query_metrics answers every authenticated GET or POST over the built-in
\* catalogue whose from and to are absent or integer-valued with the 200 data envelope,
\* whatever the selector and the resolution: never an error status, never an exception.
C10_QueryAlwaysAnswers ==
    (/\ Serving("/api/v2/metrics/query")
     /\ HeaderAccepted(request[1].headers.Authorization)
     /\ AbsentOrInteger(request[1].params.from)
     /\ AbsentOrInteger(request[1].params.to)) =>
        /\ handler = "query_metrics"
        /\ IsDataEnvelope(response[1])

\* a selector that is only an unclosed marker, without from and to
C10_Witness ==
    /\ Serving("/api/v2/metrics/query")
    /\ HeaderAccepted(request[1].headers.Authorization)
    /\ request[1].params.metricSelector = Some(MARK_SORT)
    /\ request[1].params.from = None
    /\ request[1].params.to = None
    /\ response[1].status = 200

\* what of a response does not come from the random source: the status, the metric
\* ids it names, the number of series (of metrics, for a list) and the timestamps of each
NonRandomPart(resp) ==
    IF resp.status = 200 /\ "result" \in DOMAIN resp.body
    THEN LET data == resp.body.result[1].data
         IN  [ status     |-> 200,
               named      |-> <<resp.body.result[1].metricId>>,
               count      |-> resp.body.totalCount,
               timestamps |-> [k \in 1..Len(data) |-> data[k].timestamps] ]
    ELSE IF resp.status = 200 /\ "metrics" \in DOMAIN resp.body
    THEN [ status     |-> 200,
           named      |-> [i \in 1..Len(resp.body.metrics) |-> resp.body.metrics[i].metricId],
           count      |-> resp.body.totalCount,
           timestamps |-> <<>> ]
    ELSE [status |-> resp.status, named |-> <<>>, count |-> 0, timestamps |-> <<>>]

\* a from/to parameter as a number: a JSON number, or the numeral of a query string
TimeOf(x) == IF x[1].t = "int" THEN x[1].n ELSE int_of_str(x[1].s)[1]

\* the non-random part of the answer to a request of ThreadRequests, from the request
\* alone and the catalogue and tokens of startup
AnswerAlone(req) ==
    LET open     == req.route \in {"/health", "/"}
        header   == req.headers.Authorization
        accepted == /\ header # None
                    /\ \E i \in 1..Len(DEFAULT_API_TOKENS) :
                           header[1] = scheme_ApiToken \o <<" ">> \o DEFAULT_API_TOKENS[i]
        plain(status) == [status |-> status, named |-> <<>>, count |-> 0, timestamps |-> <<>>]
        data(id, n, from, to, step) ==
            [ status     |-> 200,
              named      |-> <<id>>,
              count      |-> n,
              timestamps |-> [k \in 1..n |-> ExpectedTimestamps(from, to, step)] ]
    IN  IF open THEN plain(200)
        ELSE IF ~accepted THEN plain(401)
        ELSE IF req.route = "/api/v2/metrics"
        THEN LET holds(m) == Occurs(m.metricId, req.args.metricSelector[1])
                 listed   == SelectSeq(BUILTIN_METRICS, holds)
             IN  [ status     |-> 200,
                   named      |-> [i \in 1..Len(listed) |-> listed[i].metricId],
                   count      |-> Len(listed),
                   timestamps |-> <<>> ]
        ELSE IF req.route = "/api/v2/metrics/query"
        THEN LET sel     == req.params.metricSelector[1]
                 base    == IF Occurs(sel, MARK_FILTER) THEN TextBefore(sel, MARK_FILTER)
                            ELSE IF Occurs(sel, MARK_SPLITBY) THEN TextBefore(sel, MARK_SPLITBY)
                            ELSE IF Occurs(sel, MARK_SORT) THEN TextBefore(sel, MARK_SORT)
                            ELSE sel
                 matched == FallbackId(BUILTIN_METRICS, base)[1]
                 res     == IF req.params.resolution = None THEN "1m"
                            ELSE req.params.resolution[1]
                 split   == Occurs(sel, MARK_SPLITBY)
                 service == Occurs(matched, kw_keyRequest_count) \/ Occurs(matched, kw_service)
             IN  data(IF base # <<>> THEN base ELSE matched,
                      IF split /\ service THEN 3 ELSE 1,
                      TimeOf(req.params.from), TimeOf(req.params.to),
                      StepOf(res, IF split THEN 300000 ELSE 60000))
        ELSE IF req.args.from = None \/ req.args.from[1].s = <<>> THEN plain(400)
        ELSE IF \A i \in 1..Len(BUILTIN_METRICS) : BUILTIN_METRICS[i].metricId # req.metric_id
        THEN plain(404)
        ELSE data(req.metric_id, 1, TimeOf(req.args.from), TimeOf(req.args.to),
                  StepOf("1m", 60000))

\* C11: with several requests in flight, their steps interleaved in any order, and
\* after any number of served requests, successful or failing, the catalogue (entries,
\* order, fields) and the accepted-token set are those of startup, and the non-random
\* part of every answer (status, named metric ids, number of series, timestamps) is the
\* one that the request's own inputs determine, whatever the other threads did before
\* and meanwhile; only the values drawn from the shared random generator depend on them.
C11_SharedStateNeverChanges ==
    /\ METRICS = BUILTIN_METRICS
    /\ VALID_API_TOKENS = DEFAULT_API_TOKENS
    /\ \A t \in Threads :
           threads[t].pc = "done" =>
               NonRandomPart(threads[t].response[1]) = AnswerAlone(threads[t].request[1])

\* two requests in flight at once: the multi-series query answered with the values of
\* the draws RandScale, 0, 0, which three consecutive draws of the generator never are,
\* because the data-points request of the other thread, still being served, drew
\* between the first and the second series; its non-random part is as alone
C11_Witness ==
    \E t \in Threads, u \in Threads :
        /\ t # u
        /\ threads[t].pc = "done"
        /\ threads[t].request[1].route = "/api/v2/metrics/query"
        /\ threads[t].response[1].status = 200
        /\ threads[t].response[1].body.totalCount = 3
        /\ threads[t].response[1].body.result[1].data[1].timestamps = <<1000000>>
        /\ threads[t].response[1].body.result[1].data[1].values = <<2800>>
        /\ threads[t].response[1].body.result[1].data[2].values = <<1000>>
        /\ threads[t].response[1].body.result[1].data[3].values = <<500>>
        /\ threads[u].pc = "loop"
        /\ threads[u].request[1].route = "/api/v2/metrics/<path:metric_id>"
        /\ Len(threads[u].locals.list) = 1
        /\ METRICS = BUILTIN_METRICS

\* the selector of a query request, '' when it carries none
SelectorOf(req) ==
    IF req.params.metricSelector = None THEN <<>> ELSE req.params.metricSelector[1]

\* the resolution of a query or data-points request, '1m' when it carries none
ResolutionOf(resolution) == IF resolution = None THEN "1m" ELSE resolution[1]

\* the text before the first ':filter(', else ':splitBy(', else ':sort(' of a selector
BaseOf(sel) ==
    IF Occurs(sel, MARK_FILTER) THEN TextBefore(sel, MARK_FILTER)
    ELSE IF Occurs(sel, MARK_SPLITBY) THEN TextBefore(sel, MARK_SPLITBY)
    ELSE IF Occurs(sel, MARK_SORT) THEN TextBefore(sel, MARK_SORT)
    ELSE sel

\* consecutive timestamps are I apart
SteppedBy(ts, I) == \A i \in 1..(Len(ts) - 1) : ts[i + 1] - ts[i] = I

\* C12: a 200 answer of query_metrics has the multi-series form exactly when the selector
\* contains ':splitBy(', whatever other markers it holds and whatever entry was matched:
\* data is then the generated series (three labelled ones for a matched service metric,
\* else one with values in 0..100, stepped by the multi-series table) and totalCount is
\* their number; otherwise data is one entry with no dimension, an empty dimension map
\* and the flat generator's points, and totalCount is 1.  The selector
\* builtin:service.keyRequest.count.total:splitBy("dt.entity.service_method") gets three
\* series under the id builtin:service.keyRequest.count.total.
C12_MultiSeriesIffSplitBy ==
    (Serving("/api/v2/metrics/query") /\ handler = "query_metrics"
        /\ response[1].status = 200) =>
        LET sel        == SelectorOf(request[1])
            resolution == ResolutionOf(request[1].params.resolution)
            matched    == FallbackId(METRICS, BaseOf(sel))[1]
            body       == response[1].body
            data       == body.result[1].data
            service    == Occurs(matched, kw_keyRequest_count) \/ Occurs(matched, kw_service)
        IN  /\ IF Occurs(sel, MARK_SPLITBY)
               THEN /\ body.totalCount = Len(data)
                    /\ Len(data) = IF service THEN 3 ELSE 1
                    /\ \A k \in 1..Len(data) :
                           /\ SteppedBy(data[k].timestamps, StepOf(resolution, 300000))
                           /\ service =>
                                  data[k].dimensions = <<"dt.entity.service_method">>
                           /\ ~service =>
                                  /\ data[k].dimensions = <<>>
                                  /\ \A i \in 1..Len(data[k].values) :
                                         InRange(data[k].values[i], <<0, 100>>)
               ELSE /\ body.totalCount = 1
                    /\ Len(data) = 1
                    /\ data[1].dimensions = <<>>
                    /\ DOMAIN data[1].dimensionMap = {}
                    /\ SteppedBy(data[1].timestamps, StepOf(resolution, 60000))
                    /\ \A i \in 1..Len(data[1].values) :
                           InRange(data[1].values[i], RangeOf(matched))
            /\ sel = sel_keyRequest_splitBy =>
                   /\ Len(data) = 3
                   /\ body.result[1].metricId = id_keyRequest_count

\* the selector of test_splitby.py answered with three series of several points
C12_Witness ==
    /\ Serving("/api/v2/metrics/query")
    /\ request[1].params.metricSelector = Some(sel_keyRequest_splitBy)
    /\ response[1].status = 200
    /\ response[1].body.totalCount = 3
    /\ Len(response[1].body.result[1].data) = 3
    /\ Len(response[1].body.result[1].data[3].timestamps) >= 2
    /\ response[1].body.result[1].metricId = id_keyRequest_count

\* C13: get_metric_data_points checks the token, then 'from', then the metric: without
\* an accepted token the answer is 401 whatever the parameters and the id; with one and
\* no 'from' (absent or empty) it is 400, also for an id that is not in the catalogue;
\* it is 404 exactly for an accepted token, a 'from' and an id that is not in the
\* catalogue.  Each of these answers is the error envelope whose code is its status.
C13_DataPointsCheckOrder ==
    Serving("/api/v2/metrics/<path:metric_id>") =>
        LET accepted == HeaderAccepted(request[1].headers.Authorization)
            from     == request[1].args.from
            has_from == from # None /\ from[1].s # <<>>
            known    == \E i \in 1..Len(METRICS) : METRICS[i].metricId = request[1].metric_id
            status   == response[1].status
        IN  /\ ~accepted => IsErrorEnvelope(response[1], 401)
            /\ (accepted /\ ~has_from) => IsErrorEnvelope(response[1], 400)
            /\ (accepted /\ has_from /\ ~known) => IsErrorEnvelope(response[1], 404)
            /\ status = 401 => ~accepted
            /\ status = 400 => (accepted /\ ~has_from)
            /\ status = 404 => (accepted /\ has_from /\ ~known)
            /\ status \in {400, 401, 404} => IsErrorEnvelope(response[1], status)

\* an accepted token, an empty 'from' and an id that is not in the catalogue: 400
C13_Witness ==
    /\ Serving("/api/v2/metrics/<path:metric_id>")
    /\ HeaderAccepted(request[1].headers.Authorization)
    /\ request[1].args.from = Some(StrVal(<<>>))
    /\ request[1].metric_id = txt_x
    /\ handler = "get_metric_data_points"
    /\ IsErrorEnvelope(response[1], 400)

\* a generator call is running: its loop has neither failed its test nor returned
CallRunning == request # None /\ response = None

\* a step of a running call moves the cursor forward
CursorIncreases ==
    (frame # None /\ frame' # None /\ frame' # frame) =>
        frame'[1].current_ts > frame[1].current_ts

\* C14: every call of get_mock_data_points and of get_mock_multi_series_data on integer
\* from_ts and to_ts returns: the interval of a running call is positive whatever the
\* resolution string, each iteration moves the cursor strictly forward, and a running
\* call leads to a returned one, whose result is the walk from from_ts to to_ts.
C14_GenerationTerminates ==
    /\ [](frame # None => frame[1].interval > 0)
    /\ [][CursorIncreases]_vars
    /\ [](response # None /\ handler = "get_mock_data_points" =>
              PairTimestamps(response[1])
                  = ExpectedTimestamps(request[1].args.from_ts, request[1].args.to_ts,
                                       StepOf(request[1].args.resolution, 60000)))
    /\ [](response # None /\ handler = "get_mock_multi_series_data" =>
              \A k \in 1..Len(response[1]) :
                  response[1][k].timestamps
                      = ExpectedTimestamps(request[1].args.from_ts, request[1].args.to_ts,
                                           StepOf(request[1].args.resolution, 300000)))
    /\ (CallRunning ~> (request # None /\ response # None))

\* a flat call with an unlisted resolution that has returned after MaxSteps + 1 iterations
C14_Witness ==
    /\ request # None
    /\ response # None
    /\ frame = None
    /\ handler = "get_mock_data_points"
    /\ request[1].args.resolution = ""
    /\ Len(response[1]) = MaxSteps + 1

\* C15: a 200 answer of query_metrics names the parsed base id when that is not empty
\* and the matched entry's id only when it is, while its data comes from the matched
\* entry's id: three series exactly for a matched service metric under ':splitBy(', and
\* flat values in the range of the matched id.  The named id need not be in the
\* catalogue.
C15_EchoedIdVersusMatchedId ==
    (Serving("/api/v2/metrics/query") /\ handler = "query_metrics"
        /\ response[1].status = 200) =>
        LET sel     == SelectorOf(request[1])
            base    == BaseOf(sel)
            matched == FallbackId(METRICS, base)[1]
            result  == response[1].body.result[1]
        IN  /\ base # <<>> => result.metricId = base
            /\ base = <<>> => result.metricId = matched
            /\ Occurs(sel, MARK_SPLITBY) =>
                   (Len(result.data) = 3
                       <=> (Occurs(matched, kw_keyRequest_count) \/ Occurs(matched, kw_service)))
            /\ ~Occurs(sel, MARK_SPLITBY) =>
                   \A i \in 1..Len(result.data[1].values) :
                       InRange(result.data[1].values[i], RangeOf(matched))

\* the answer names 'x', which no catalogue id equals, over values of the first entry
\* (cpu usage, 20 at the lowest draw, where the range of an id 'x' would give 0)
C15_Witness ==
    /\ Serving("/api/v2/metrics/query")
    /\ response[1].status = 200
    /\ response[1].body.result[1].metricId = txt_x
    /\ \A i \in 1..Len(METRICS) : METRICS[i].metricId # txt_x
    /\ stdout[4].value = Some(id_cpu_usage)
    /\ Len(response[1].body.result[1].data) = 1
    /\ Len(response[1].body.result[1].data[1].values) >= 2
    /\ response[1].body.result[1].data[1].values[1] = 20

\* a from/to parameter the request supplies as an integer: a JSON number or a numeral
SuppliedInteger(x) ==
    /\ x # None
    /\ (x[1].t = "int" \/ (x[1].t = "str" /\ IsIntegerText(x[1].s)))

\* the integer a supplied parameter stands for
NumberOf(x) == IF x[1].t = "int" THEN x[1].n ELSE int_of_str(x[1].s)[1]

\* C16: when a query request supplies from and to as integers (query-string numerals
\* or JSON numbers, 0 included), the clock is not consulted for a default, every series
\* of the answer starts at the supplied from when from <= to, and no timestamp exceeds
\* the supplied to.
C16_SuppliedTimesAreUsed ==
    (/\ Serving("/api/v2/metrics/query")
     /\ handler = "query_metrics"
     /\ response[1].status = 200
     /\ SuppliedInteger(request[1].params.from)
     /\ SuppliedInteger(request[1].params.to)) =>
        LET from == NumberOf(request[1].params.from)
            to   == NumberOf(request[1].params.to)
            data == response[1].body.result[1].data
        IN  /\ env.now = None
            /\ \A k \in 1..Len(data) :
                   /\ from <= to =>
                          /\ data[k].timestamps # <<>>
                          /\ data[k].timestamps[1] = from
                   /\ \A i \in 1..Len(data[k].timestamps) : data[k].timestamps[i] <= to

====
